---- MODULE Spec2Model ----
(***************************************************************************)
(* Model of the Minesweeper rule engine, class MinesweeperGame of          *)
(* src/src/game.ts: the grid of cells, lazy mine placement on the first    *)
(* reveal, the recursive cascade, flag toggling, chording and the two win  *)
(* conditions.  Every public method is one action; the private helpers are *)
(* operators on a game record g = [board, gameState, flagCount,            *)
(* firstClick] that are computed as the code computes them.                *)
(***************************************************************************)
EXTENDS Integers, FiniteSets, Sequences, TLC

(***************************************************************************)
(* Bounds of the model.                                                    *)
(***************************************************************************)
\* largest requested mine count (config.mines) tried on the small boards
MaxMines == 2
\* toggleFlag is not issued on an unflagged cell once this many flags are set
MaxFlags == 1
\* before the first reveal, toggleFlag is issued only on boards of at most
\* this many cells
MaxEarlyCells == 8
\* largest requested mine count tried when placeMines is run step by step
MaxPlaceMines == 3
\* largest time, in seconds, handed to addHighScore
MaxTime == 3
\* addHighScore calls in one run
MaxSubmits == 7
\* calls that return true made on a game and on the game restored from its
\* snapshot, taken together
MaxCopyCalls == 2

\* the first reveal on a custom board is followed on boards of at most this
\* many cells
MaxCustomCells == 25

\* the small boards, <<rows, cols>>: a single cell, two boards too small to
\* hold a mine, one of them a single safe zone, and the smallest board that
\* can hold a mine
SmallDims == {<<1, 1>>, <<2, 4>>, <<3, 3>>, <<2, 5>>}

\* the GameConfig values handed to the constructor: the small boards with
\* every mine count up to MaxMines (on all of them rows * cols - 9 is less
\* than 2), and a 3 x 4 board that holds its two mines
Configs ==
  {[rows |-> d[1], cols |-> d[2], mines |-> m] : d \in SmallDims, m \in 0..MaxMines}
    \cup {[rows |-> 3, cols |-> 4, mines |-> 2]}

\* the boards placeMines is run on step by step: the small boards, and
\* boards with up to seven cells outside the 3x3 block around a click
PlaceDims == SmallDims \cup {<<3, 4>>, <<4, 4>>, <<1, 12>>}

PlaceConfigs ==
  {[rows |-> d[1], cols |-> d[2], mines |-> m] :
     d \in PlaceDims, m \in 0..MaxPlaceMines}

VARIABLES
  config,      \* this.config
  board,       \* this.board, a function from <<row, col>> to a cell
  gameState,   \* this._gameState
  flagCount,   \* this._flagCount
  firstClick,  \* this.firstClick
  placing,     \* the locals of a placeMines call that is under way
  stored,      \* the localStorage item kept under STORAGE_KEY
  submitted,   \* history: for each level, how often each time was submitted
  copies,      \* a game, a snapshot of it and a game restored from it, as
               \* objects of one heap
  gameStore,   \* the localStorage item kept under GAME_STATE_KEY
  custom       \* the custom-level dialog: its three inputs and its error

\* the variables of the high-score table
scoreVars == <<stored, submitted>>

\* the variables of the object heap, of the saved game and of the dialog
sideVars == <<copies, gameStore, custom>>

vars == <<config, board, gameState, flagCount, firstClick, placing,
          stored, submitted, copies, gameStore, custom>>

(***************************************************************************)
(* Helpers.                                                                *)
(***************************************************************************)
Min(a, b) == IF a < b THEN a ELSE b

Abs(x) == IF x < 0 THEN -x ELSE x

\* the cells of the grid built by initBoard
Cells == (0..(config.rows - 1)) \X (0..(config.cols - 1))

\* getCell returns null outside the grid
InBounds(row, col) ==
  ~(row < 0 \/ row >= config.rows \/ col < 0 \/ col >= config.cols)

\* the (dr, dc) pairs in the order of the nested for loops, (0, 0) skipped
Offsets == << <<-1, -1>>, <<-1, 0>>, <<-1, 1>>, <<0, -1>>,
              <<0, 1>>, <<1, -1>>, <<1, 0>>, <<1, 1>> >>

\* the game as one record
Game == [board |-> board, gameState |-> gameState,
         flagCount |-> flagCount, firstClick |-> firstClick]

(***************************************************************************)
(* Board construction and mine placement.                                  *)
(***************************************************************************)
\* initBoard building the cells already revealed
initBoard_Revealed ==
  [p \in Cells |-> [isMine |-> FALSE, isRevealed |-> TRUE,
                    isFlagged |-> FALSE, adjacentMines |-> 0]]

initBoard ==
  [p \in Cells |-> [isMine |-> FALSE, isRevealed |-> FALSE,
                    isFlagged |-> FALSE, adjacentMines |-> 0]]

\* countAdjacentMines looking at the four orthogonal neighbours only
countAdjacentMines_Orthogonal(b, row, col) ==
  Cardinality({i \in {2, 4, 5, 7} :
      /\ InBounds(row + Offsets[i][1], col + Offsets[i][2])
      /\ b[<<row + Offsets[i][1], col + Offsets[i][2]>>].isMine})

countAdjacentMines(b, row, col) ==
  Cardinality({i \in 1..8 :
      /\ InBounds(row + Offsets[i][1], col + Offsets[i][2])
      /\ b[<<row + Offsets[i][1], col + Offsets[i][2]>>].isMine})

calculateAdjacentMines(b) ==
  [p \in DOMAIN b |->
     IF ~b[p].isMine
       THEN [b[p] EXCEPT !.adjacentMines = countAdjacentMines(b, p[1], p[2])]
       ELSE b[p]]

\* the bound of the while loop without the clamp to the cells that fit
maxMines_Unclamped == config.mines

\* the bound of the while loop in placeMines
maxMines == Min(config.mines, config.rows * config.cols - 9)

\* Excluded with the neighbours of the click left out
Excluded_ClickOnly(p, excludeRow, excludeCol) ==
  p[1] = excludeRow /\ p[2] = excludeCol

\* a random cell is rejected when it lies in the 3x3 block around the click
Excluded(p, excludeRow, excludeCol) ==
  Abs(p[1] - excludeRow) <= 1 /\ Abs(p[2] - excludeCol) <= 1

\* the sets of cells the rejection loop of placeMines can end with: it runs
\* until maxMines distinct cells outside the excluded block are mines, and
\* not at all when maxMines <= 0
MinePlacements(excludeRow, excludeCol) ==
  IF maxMines <= 0 THEN {{}}
  ELSE {M \in SUBSET {p \in Cells : ~Excluded(p, excludeRow, excludeCol)} :
          Cardinality(M) = maxMines}

placeMines(b, M) ==
  calculateAdjacentMines(
    [p \in DOMAIN b |-> IF p \in M THEN [b[p] EXCEPT !.isMine = TRUE] ELSE b[p]])

(***************************************************************************)
(* End-of-game unveil and the win check.                                   *)
(***************************************************************************)
\* revealAllMines showing the mines and covering every other cell
revealAllMines_CoversRest(b) ==
  [p \in DOMAIN b |-> [b[p] EXCEPT !.isRevealed = b[p].isMine]]

\* revealAllMines uncovering nothing
revealAllMines_None(b) == b

revealAllMines(b) ==
  [p \in DOMAIN b |->
     IF b[p].isMine THEN [b[p] EXCEPT !.isRevealed = TRUE] ELSE b[p]]

\* revealAllCells uncovering the safe cells only
revealAllCells_SafeOnly(b) ==
  [p \in DOMAIN b |->
     IF b[p].isMine THEN b[p] ELSE [b[p] EXCEPT !.isRevealed = TRUE]]

revealAllCells(b) ==
  [p \in DOMAIN b |-> [b[p] EXCEPT !.isRevealed = TRUE]]

\* checkWin without its first win condition
checkWin_FlagsOnly(g) ==
  LET allMinesFlagged ==
        \A p \in DOMAIN g.board : g.board[p].isMine => g.board[p].isFlagged
  IN  IF g.flagCount = config.mines /\ allMinesFlagged
        THEN [g EXCEPT !.gameState = "won", !.board = revealAllCells(g.board)]
        ELSE g

\* checkWin without its second win condition
checkWin_SafeOnly(g) ==
  IF \A p \in DOMAIN g.board : g.board[p].isMine \/ g.board[p].isRevealed
    THEN [g EXCEPT !.gameState = "won", !.board = revealAllCells(g.board)]
    ELSE g

checkWin(g) ==
  LET unrevealedSafeCells ==
        Cardinality({p \in DOMAIN g.board :
                       ~g.board[p].isMine /\ ~g.board[p].isRevealed})
      allMinesFlagged ==
        \A p \in DOMAIN g.board : g.board[p].isMine => g.board[p].isFlagged
      won == [g EXCEPT !.gameState = "won", !.board = revealAllCells(g.board)]
  IN  IF unrevealedSafeCells = 0 THEN won
      ELSE IF g.flagCount = config.mines /\ allMinesFlagged THEN won
      ELSE g

(***************************************************************************)
(* reveal, with its recursive cascade.  M is the outcome of placeMines,    *)
(* used only by the call that finds firstClick set.  The result is the     *)
(* game after the call and the returned boolean.                           *)
(***************************************************************************)
\* the end of reveal without the call of checkWin
afterCascade_NoCheck(g) == [g |-> g, ret |-> TRUE]

\* the end of reveal returning false
afterCascade_ReturnsFalse(g) == [g |-> checkWin(g), ret |-> FALSE]

\* the end of reveal: this.checkWin(); return true
afterCascade(g) == [g |-> checkWin(g), ret |-> TRUE]

RECURSIVE reveal(_, _, _, _)

\* reveal without the guard on flagged cells
reveal_OnFlagged(g, row, col, M) ==
  IF g.gameState # "playing" THEN [g |-> g, ret |-> FALSE]
  ELSE IF ~InBounds(row, col) \/ g.board[<<row, col>>].isRevealed
    THEN [g |-> g, ret |-> FALSE]
  ELSE
    LET g1 == IF g.firstClick
                THEN [g EXCEPT !.firstClick = FALSE,
                               !.board = placeMines(g.board, M)]
                ELSE g
        g2 == [g1 EXCEPT !.board[<<row, col>>].isRevealed = TRUE]
        n1 == reveal(g2, row - 1, col - 1, {}).g
        n2 == reveal(n1, row - 1, col, {}).g
        n3 == reveal(n2, row - 1, col + 1, {}).g
        n4 == reveal(n3, row, col - 1, {}).g
        n5 == reveal(n4, row, col + 1, {}).g
        n6 == reveal(n5, row + 1, col - 1, {}).g
        n7 == reveal(n6, row + 1, col, {}).g
        n8 == reveal(n7, row + 1, col + 1, {}).g
    IN  IF g2.board[<<row, col>>].isMine
          THEN [g |-> [g2 EXCEPT !.gameState = "lost",
                                 !.board = revealAllMines(g2.board)],
                ret |-> TRUE]
          ELSE CASE g2.board[<<row, col>>].adjacentMines # 0 -> afterCascade(g2)
                 [] n1.gameState # "playing" -> afterCascade(n1)
                 [] n2.gameState # "playing" -> afterCascade(n2)
                 [] n3.gameState # "playing" -> afterCascade(n3)
                 [] n4.gameState # "playing" -> afterCascade(n4)
                 [] n5.gameState # "playing" -> afterCascade(n5)
                 [] n6.gameState # "playing" -> afterCascade(n6)
                 [] n7.gameState # "playing" -> afterCascade(n7)
                 [] OTHER -> afterCascade(n8)

\* reveal whose cascade visits the four orthogonal neighbours only
reveal_FourNeighbours(g, row, col, M) ==
  IF g.gameState # "playing" THEN [g |-> g, ret |-> FALSE]
  ELSE IF \/ ~InBounds(row, col)
          \/ g.board[<<row, col>>].isRevealed
          \/ g.board[<<row, col>>].isFlagged
    THEN [g |-> g, ret |-> FALSE]
  ELSE
    LET g1 == IF g.firstClick
                THEN [g EXCEPT !.firstClick = FALSE,
                               !.board = placeMines(g.board, M)]
                ELSE g
        g2 == [g1 EXCEPT !.board[<<row, col>>].isRevealed = TRUE]
        n2 == reveal(g2, row - 1, col, {}).g
        n4 == reveal(n2, row, col - 1, {}).g
        n5 == reveal(n4, row, col + 1, {}).g
        n7 == reveal(n5, row + 1, col, {}).g
    IN  IF g2.board[<<row, col>>].isMine
          THEN [g |-> [g2 EXCEPT !.gameState = "lost",
                                 !.board = revealAllMines(g2.board)],
                ret |-> TRUE]
          ELSE CASE g2.board[<<row, col>>].adjacentMines # 0 -> afterCascade(g2)
                 [] n2.gameState # "playing" -> afterCascade(n2)
                 [] n4.gameState # "playing" -> afterCascade(n4)
                 [] n5.gameState # "playing" -> afterCascade(n5)
                 [] OTHER -> afterCascade(n7)

\* reveal that places the mines and leaves firstClick set
reveal_KeepsFirstClick(g, row, col, M) ==
  IF g.gameState # "playing" THEN [g |-> g, ret |-> FALSE]
  ELSE IF \/ ~InBounds(row, col)
          \/ g.board[<<row, col>>].isRevealed
          \/ g.board[<<row, col>>].isFlagged
    THEN [g |-> g, ret |-> FALSE]
  ELSE
    LET g1 == IF g.firstClick
                THEN [g EXCEPT !.board = placeMines(g.board, M)]
                ELSE g
        g2 == [g1 EXCEPT !.board[<<row, col>>].isRevealed = TRUE]
        n1 == reveal(g2, row - 1, col - 1, {}).g
        n2 == reveal(n1, row - 1, col, {}).g
        n3 == reveal(n2, row - 1, col + 1, {}).g
        n4 == reveal(n3, row, col - 1, {}).g
        n5 == reveal(n4, row, col + 1, {}).g
        n6 == reveal(n5, row + 1, col - 1, {}).g
        n7 == reveal(n6, row + 1, col, {}).g
        n8 == reveal(n7, row + 1, col + 1, {}).g
    IN  IF g2.board[<<row, col>>].isMine
          THEN [g |-> [g2 EXCEPT !.gameState = "lost",
                                 !.board = revealAllMines(g2.board)],
                ret |-> TRUE]
          ELSE CASE g2.board[<<row, col>>].adjacentMines # 0 -> afterCascade(g2)
                 [] n1.gameState # "playing" -> afterCascade(n1)
                 [] n2.gameState # "playing" -> afterCascade(n2)
                 [] n3.gameState # "playing" -> afterCascade(n3)
                 [] n4.gameState # "playing" -> afterCascade(n4)
                 [] n5.gameState # "playing" -> afterCascade(n5)
                 [] n6.gameState # "playing" -> afterCascade(n6)
                 [] n7.gameState # "playing" -> afterCascade(n7)
                 [] OTHER -> afterCascade(n8)

reveal(g, row, col, M) ==
  IF g.gameState # "playing" THEN [g |-> g, ret |-> FALSE]
  ELSE IF \/ ~InBounds(row, col)
          \/ g.board[<<row, col>>].isRevealed
          \/ g.board[<<row, col>>].isFlagged
    THEN [g |-> g, ret |-> FALSE]
  ELSE
    LET g1 == IF g.firstClick
                THEN [g EXCEPT !.firstClick = FALSE,
                               !.board = placeMines(g.board, M)]
                ELSE g
        g2 == [g1 EXCEPT !.board[<<row, col>>].isRevealed = TRUE]
        \* the nested for loops: this.reveal(row + dr, col + dc), in order
        n1 == reveal(g2, row - 1, col - 1, {}).g
        n2 == reveal(n1, row - 1, col, {}).g
        n3 == reveal(n2, row - 1, col + 1, {}).g
        n4 == reveal(n3, row, col - 1, {}).g
        n5 == reveal(n4, row, col + 1, {}).g
        n6 == reveal(n5, row + 1, col - 1, {}).g
        n7 == reveal(n6, row + 1, col, {}).g
        n8 == reveal(n7, row + 1, col + 1, {}).g
    IN  IF g2.board[<<row, col>>].isMine
          THEN [g |-> [g2 EXCEPT !.gameState = "lost",
                                 !.board = revealAllMines(g2.board)],
                ret |-> TRUE]
          \* once a call has ended the game the later calls of the loop return
          \* at their first guard: the loop ends with the game as it left it
          ELSE CASE g2.board[<<row, col>>].adjacentMines # 0 -> afterCascade(g2)
                 [] n1.gameState # "playing" -> afterCascade(n1)
                 [] n2.gameState # "playing" -> afterCascade(n2)
                 [] n3.gameState # "playing" -> afterCascade(n3)
                 [] n4.gameState # "playing" -> afterCascade(n4)
                 [] n5.gameState # "playing" -> afterCascade(n5)
                 [] n6.gameState # "playing" -> afterCascade(n6)
                 [] n7.gameState # "playing" -> afterCascade(n7)
                 [] OTHER -> afterCascade(n8)

(***************************************************************************)
(* reveal once more, counting its activations: n is the number of calls of *)
(* reveal, the top-level one and the recursive ones, that got past the two *)
(* guards.                                                                 *)
(***************************************************************************)
RECURSIVE revealCount(_, _, _, _)

revealCount(g, row, col, M) ==
  IF g.gameState # "playing" THEN [g |-> g, n |-> 0]
  ELSE IF \/ ~InBounds(row, col)
          \/ g.board[<<row, col>>].isRevealed
          \/ g.board[<<row, col>>].isFlagged
    THEN [g |-> g, n |-> 0]
  ELSE
    LET g1 == IF g.firstClick
                THEN [g EXCEPT !.firstClick = FALSE,
                               !.board = placeMines(g.board, M)]
                ELSE g
        g2 == [g1 EXCEPT !.board[<<row, col>>].isRevealed = TRUE]
        \* one pass of the nested for loops, after the passes counted in c
        pass(c, r, k) ==
          LET x == revealCount(c.g, r, k, {})
          IN  [g |-> x.g, n |-> c.n + x.n]
        c0 == [g |-> g2, n |-> 1]
        c1 == pass(c0, row - 1, col - 1)
        c2 == pass(c1, row - 1, col)
        c3 == pass(c2, row - 1, col + 1)
        c4 == pass(c3, row, col - 1)
        c5 == pass(c4, row, col + 1)
        c6 == pass(c5, row + 1, col - 1)
        c7 == pass(c6, row + 1, col)
        c8 == pass(c7, row + 1, col + 1)
        done(c) == [g |-> checkWin(c.g), n |-> c.n]
    IN  IF g2.board[<<row, col>>].isMine
          THEN [g |-> [g2 EXCEPT !.gameState = "lost",
                                 !.board = revealAllMines(g2.board)],
                n |-> 1]
          ELSE CASE g2.board[<<row, col>>].adjacentMines # 0 -> done(c0)
                 [] c1.g.gameState # "playing" -> done(c1)
                 [] c2.g.gameState # "playing" -> done(c2)
                 [] c3.g.gameState # "playing" -> done(c3)
                 [] c4.g.gameState # "playing" -> done(c4)
                 [] c5.g.gameState # "playing" -> done(c5)
                 [] c6.g.gameState # "playing" -> done(c6)
                 [] c7.g.gameState # "playing" -> done(c7)
                 [] OTHER -> done(c8)

\* toggleFlag allowing one flag on the board: setting a flag clears the others
toggleFlag_SingleFlag(g, row, col) ==
  IF g.gameState # "playing" THEN [g |-> g, ret |-> FALSE]
  ELSE IF ~InBounds(row, col) \/ g.board[<<row, col>>].isRevealed
    THEN [g |-> g, ret |-> FALSE]
  ELSE
    LET flagged == ~g.board[<<row, col>>].isFlagged
        g1 == [g EXCEPT
                 !.board = [p \in DOMAIN g.board |->
                              [g.board[p] EXCEPT !.isFlagged =
                                 IF p = <<row, col>> THEN flagged
                                 ELSE IF flagged THEN FALSE ELSE @]],
                 !.flagCount = IF flagged THEN 1 ELSE @ - 1]
    IN  [g |-> checkWin(g1), ret |-> TRUE]

(***************************************************************************)
(* toggleFlag.                                                             *)
(***************************************************************************)
\* toggleFlag without the guard on the game state
toggleFlag_AfterEnd(g, row, col) ==
  IF ~InBounds(row, col) \/ g.board[<<row, col>>].isRevealed
    THEN [g |-> g, ret |-> FALSE]
  ELSE
    LET flagged == ~g.board[<<row, col>>].isFlagged
        g1 == [g EXCEPT !.board[<<row, col>>].isFlagged = flagged,
                        !.flagCount = IF flagged THEN @ + 1 ELSE @ - 1]
    IN  [g |-> checkWin(g1), ret |-> TRUE]

\* toggleFlag counting a removed flag as one more
toggleFlag_CountUp(g, row, col) ==
  IF g.gameState # "playing" THEN [g |-> g, ret |-> FALSE]
  ELSE IF ~InBounds(row, col) \/ g.board[<<row, col>>].isRevealed
    THEN [g |-> g, ret |-> FALSE]
  ELSE
    LET g1 == [g EXCEPT !.board[<<row, col>>].isFlagged = ~@,
                        !.flagCount = @ + 1]
    IN  [g |-> checkWin(g1), ret |-> TRUE]

\* toggleFlag without the guard on revealed cells
toggleFlag_OnRevealed(g, row, col) ==
  IF g.gameState # "playing" THEN [g |-> g, ret |-> FALSE]
  ELSE IF ~InBounds(row, col) THEN [g |-> g, ret |-> FALSE]
  ELSE
    LET flagged == ~g.board[<<row, col>>].isFlagged
        g1 == [g EXCEPT !.board[<<row, col>>].isFlagged = flagged,
                        !.flagCount = IF flagged THEN @ + 1 ELSE @ - 1]
    IN  [g |-> checkWin(g1), ret |-> TRUE]

toggleFlag(g, row, col) ==
  IF g.gameState # "playing" THEN [g |-> g, ret |-> FALSE]
  ELSE IF ~InBounds(row, col) \/ g.board[<<row, col>>].isRevealed
    THEN [g |-> g, ret |-> FALSE]
  ELSE
    LET flagged == ~g.board[<<row, col>>].isFlagged
        g1 == [g EXCEPT !.board[<<row, col>>].isFlagged = flagged,
                        !.flagCount = IF flagged THEN @ + 1 ELSE @ - 1]
    IN  [g |-> checkWin(g1), ret |-> TRUE]

(***************************************************************************)
(* chord.                                                                  *)
(***************************************************************************)
\* one pass of the second pair of for loops of chord uncovering the
\* neighbour itself instead of calling reveal
chordReveal_Direct(g, r, c) ==
  IF /\ InBounds(r, c)
     /\ ~g.board[<<r, c>>].isFlagged
     /\ ~g.board[<<r, c>>].isRevealed
    THEN [g EXCEPT !.board[<<r, c>>].isRevealed = TRUE]
    ELSE g

\* one pass of the second pair of for loops of chord, for the neighbour at
\* (r, c)
chordReveal(g, r, c) ==
  IF /\ InBounds(r, c)
     /\ ~g.board[<<r, c>>].isFlagged
     /\ ~g.board[<<r, c>>].isRevealed
    THEN reveal(g, r, c, {}).g
    ELSE g

\* the first pair of for loops of chord counting the covered neighbours
\* instead of the flagged ones
adjacentFlags_Covered(b, row, col) ==
  Cardinality({i \in 1..8 :
      /\ InBounds(row + Offsets[i][1], col + Offsets[i][2])
      /\ ~b[<<row + Offsets[i][1], col + Offsets[i][2]>>].isRevealed})

\* the first pair of for loops of chord
adjacentFlags(b, row, col) ==
  Cardinality({i \in 1..8 :
      /\ InBounds(row + Offsets[i][1], col + Offsets[i][2])
      /\ b[<<row + Offsets[i][1], col + Offsets[i][2]>>].isFlagged})

\* chord returning true only when a neighbour reveal changed something
chord_ChangedOnly(g, row, col) ==
  IF g.gameState # "playing" THEN [g |-> g, ret |-> FALSE]
  ELSE IF \/ ~InBounds(row, col)
          \/ ~g.board[<<row, col>>].isRevealed
          \/ g.board[<<row, col>>].adjacentMines = 0
    THEN [g |-> g, ret |-> FALSE]
  ELSE IF adjacentFlags(g.board, row, col) = g.board[<<row, col>>].adjacentMines
    THEN LET n1 == chordReveal(g, row - 1, col - 1)
             n2 == chordReveal(n1, row - 1, col)
             n3 == chordReveal(n2, row - 1, col + 1)
             n4 == chordReveal(n3, row, col - 1)
             n5 == chordReveal(n4, row, col + 1)
             n6 == chordReveal(n5, row + 1, col - 1)
             n7 == chordReveal(n6, row + 1, col)
             n8 == chordReveal(n7, row + 1, col + 1)
         IN  CASE n1.gameState # "playing" -> [g |-> n1, ret |-> n1 # g]
               [] n2.gameState # "playing" -> [g |-> n2, ret |-> n2 # g]
               [] n3.gameState # "playing" -> [g |-> n3, ret |-> n3 # g]
               [] n4.gameState # "playing" -> [g |-> n4, ret |-> n4 # g]
               [] n5.gameState # "playing" -> [g |-> n5, ret |-> n5 # g]
               [] n6.gameState # "playing" -> [g |-> n6, ret |-> n6 # g]
               [] n7.gameState # "playing" -> [g |-> n7, ret |-> n7 # g]
               [] OTHER -> [g |-> n8, ret |-> n8 # g]
  ELSE [g |-> g, ret |-> FALSE]

chord(g, row, col) ==
  IF g.gameState # "playing" THEN [g |-> g, ret |-> FALSE]
  ELSE IF \/ ~InBounds(row, col)
          \/ ~g.board[<<row, col>>].isRevealed
          \/ g.board[<<row, col>>].adjacentMines = 0
    THEN [g |-> g, ret |-> FALSE]
  ELSE IF adjacentFlags(g.board, row, col) = g.board[<<row, col>>].adjacentMines
    THEN LET n1 == chordReveal(g, row - 1, col - 1)
             n2 == chordReveal(n1, row - 1, col)
             n3 == chordReveal(n2, row - 1, col + 1)
             n4 == chordReveal(n3, row, col - 1)
             n5 == chordReveal(n4, row, col + 1)
             n6 == chordReveal(n5, row + 1, col - 1)
             n7 == chordReveal(n6, row + 1, col)
             n8 == chordReveal(n7, row + 1, col + 1)
         IN  CASE n1.gameState # "playing" -> [g |-> n1, ret |-> TRUE]
               [] n2.gameState # "playing" -> [g |-> n2, ret |-> TRUE]
               [] n3.gameState # "playing" -> [g |-> n3, ret |-> TRUE]
               [] n4.gameState # "playing" -> [g |-> n4, ret |-> TRUE]
               [] n5.gameState # "playing" -> [g |-> n5, ret |-> TRUE]
               [] n6.gameState # "playing" -> [g |-> n6, ret |-> TRUE]
               [] n7.gameState # "playing" -> [g |-> n7, ret |-> TRUE]
               [] OTHER -> [g |-> n8, ret |-> TRUE]
  ELSE [g |-> g, ret |-> FALSE]

(***************************************************************************)
(* serialize and deserialize.  A GameSaveData is a record whose board is   *)
(* an array of rows, each an array of cells (sequences, indexed from 1),   *)
(* the cells without their row and col.  deserialize builds a game for     *)
(* data.config and copies the saved fields into it: the result is the      *)
(* config of the new game together with its game record.                   *)
(***************************************************************************)
serialize(g) ==
  [config |-> config,
   board |-> [r \in 1..config.rows |->
               [c \in 1..config.cols |->
                 [isMine |-> g.board[<<r - 1, c - 1>>].isMine,
                  isRevealed |-> g.board[<<r - 1, c - 1>>].isRevealed,
                  isFlagged |-> g.board[<<r - 1, c - 1>>].isFlagged,
                  adjacentMines |-> g.board[<<r - 1, c - 1>>].adjacentMines]]],
   gameState |-> g.gameState,
   flagCount |-> g.flagCount,
   firstClick |-> g.firstClick]

\* deserialize leaving _flagCount as the constructor set it
deserialize_NoFlagCount(data) ==
  [config |-> data.config,
   g |-> [board |->
            [p \in (0..(data.config.rows - 1)) \X (0..(data.config.cols - 1)) |->
               [isMine |-> data.board[p[1] + 1][p[2] + 1].isMine,
                isRevealed |-> data.board[p[1] + 1][p[2] + 1].isRevealed,
                isFlagged |-> data.board[p[1] + 1][p[2] + 1].isFlagged,
                adjacentMines |-> data.board[p[1] + 1][p[2] + 1].adjacentMines]],
          gameState |-> data.gameState,
          flagCount |-> 0,
          firstClick |-> data.firstClick]]

\* deserialize leaving firstClick as the constructor set it
deserialize_FirstClickSet(data) ==
  [config |-> data.config,
   g |-> [board |->
            [p \in (0..(data.config.rows - 1)) \X (0..(data.config.cols - 1)) |->
               [isMine |-> data.board[p[1] + 1][p[2] + 1].isMine,
                isRevealed |-> data.board[p[1] + 1][p[2] + 1].isRevealed,
                isFlagged |-> data.board[p[1] + 1][p[2] + 1].isFlagged,
                adjacentMines |-> data.board[p[1] + 1][p[2] + 1].adjacentMines]],
          gameState |-> data.gameState,
          flagCount |-> data.flagCount,
          firstClick |-> TRUE]]

deserialize(data) ==
  [config |-> data.config,
   g |-> [board |->
            [p \in (0..(data.config.rows - 1)) \X (0..(data.config.cols - 1)) |->
               [isMine |-> data.board[p[1] + 1][p[2] + 1].isMine,
                isRevealed |-> data.board[p[1] + 1][p[2] + 1].isRevealed,
                isFlagged |-> data.board[p[1] + 1][p[2] + 1].isFlagged,
                adjacentMines |-> data.board[p[1] + 1][p[2] + 1].adjacentMines]],
          gameState |-> data.gameState,
          flagCount |-> data.flagCount,
          firstClick |-> data.firstClick]]

\* reading a property of a JavaScript object: undefined when it is absent
Field(obj, name) == IF name \in DOMAIN obj THEN obj[name] ELSE "undefined"

\* deserialize on any object handed to it, well-formed or not.  It has no
\* check of its own: it throws the TypeError of the runtime where it reads
\* a property of undefined (the config in initBoard, a missing board, row
\* or cell in the restore loops), and otherwise returns a game, the absent
\* fields copied as undefined and the surplus rows and cells ignored
deserializeOutcome(data) ==
  IF "config" \notin DOMAIN data THEN [kind |-> "TypeError"]
  ELSE
    LET rows == data.config.rows
        cols == data.config.cols
        cellAt(r, c) == data.board[r][c]
    IN  IF /\ rows >= 1
           /\ cols >= 1
           /\ \/ "board" \notin DOMAIN data
              \/ \E r \in 1..rows :
                   \/ r \notin DOMAIN data.board
                   \/ \E c \in 1..cols : c \notin DOMAIN data.board[r]
          THEN [kind |-> "TypeError"]
          ELSE [kind |-> "returned",
                config |-> data.config,
                g |-> [board |->
                         [p \in (0..(rows - 1)) \X (0..(cols - 1)) |->
                            [isMine |-> Field(cellAt(p[1] + 1, p[2] + 1), "isMine"),
                             isRevealed |->
                               Field(cellAt(p[1] + 1, p[2] + 1), "isRevealed"),
                             isFlagged |->
                               Field(cellAt(p[1] + 1, p[2] + 1), "isFlagged"),
                             adjacentMines |->
                               Field(cellAt(p[1] + 1, p[2] + 1), "adjacentMines")]],
                       gameState |-> Field(data, "gameState"),
                       flagCount |-> Field(data, "flagCount"),
                       firstClick |-> Field(data, "firstClick")]]

(***************************************************************************)
(* The high-score table of src/src/highScores.ts.  The table lives in      *)
(* localStorage as JSON text; the text is modelled as nested tuples, an    *)
(* entry as <<time, date>>, the in-memory HighScores as a record of        *)
(* sequences of [time, date] records.  The date of an entry is the clock   *)
(* reading of the call and plays no part in the ordering: one value stands *)
(* for it.                                                                 *)
(***************************************************************************)
MAX_SCORES == 5

\* the keys of HighScores, in the order of the interface
Levels == <<"beginner", "master", "expert">>

LevelIndex(level) == CHOOSE i \in 1..3 : Levels[i] = level

\* localStorage.getItem returns null: nothing stored under the key
NoItem == [present |-> FALSE, text |-> <<>>]

\* new Date().toISOString()
Now == "date"

getEmptyScores == [l \in {Levels[i] : i \in 1..3} |-> <<>>]

\* JSON.stringify(scores)
stringify(scores) ==
  [i \in 1..3 |->
     [k \in 1..Len(scores[Levels[i]]) |->
        <<scores[Levels[i]][k].time, scores[Levels[i]][k].date>>]]

\* JSON.parse(stored), and the three reads parsed.level || []
parse(text) ==
  [l \in {Levels[i] : i \in 1..3} |->
     IF LevelIndex(l) \in DOMAIN text
       THEN [k \in 1..Len(text[LevelIndex(l)]) |->
               [time |-> text[LevelIndex(l)][k][1],
                date |-> text[LevelIndex(l)][k][2]]]
       ELSE <<>>]

loadHighScores(item) ==
  IF item.present THEN parse(item.text) ELSE getEmptyScores

saveHighScores(scores) == [present |-> TRUE, text |-> stringify(scores)]

\* levelScores.splice(insertIndex, 0, newScore), insertIndex counted from 0
splice(levelScores, insertIndex, newScore) ==
  SubSeq(levelScores, 1, insertIndex) \o <<newScore>>
    \o SubSeq(levelScores, insertIndex + 1, Len(levelScores))

\* addHighScore without the pop that drops the sixth entry
addHighScore_NoPop(item, level, time) ==
  LET scores == loadHighScores(item)
      levelScores == scores[level]
      newScore == [time |-> time, date |-> Now]
      found == {k \in 1..Len(levelScores) : time < levelScores[k].time}
      insertIndex ==
        IF found = {} THEN Len(levelScores)
        ELSE (CHOOSE k \in found : \A j \in found : k <= j) - 1
      inserted == splice(levelScores, insertIndex, newScore)
  IN  IF insertIndex >= MAX_SCORES THEN [item |-> item, ret |-> 0]
      ELSE [item |-> saveHighScores([scores EXCEPT ![level] = inserted]),
            ret |-> insertIndex + 1]

\* addHighScore on the stored item: the item it leaves and the rank it
\* returns, 0 standing for null
addHighScore(item, level, time) ==
  LET scores == loadHighScores(item)
      levelScores == scores[level]
      newScore == [time |-> time, date |-> Now]
      found == {k \in 1..Len(levelScores) : time < levelScores[k].time}
      \* findIndex, counted from 0, and the length when nothing was found
      insertIndex ==
        IF found = {} THEN Len(levelScores)
        ELSE (CHOOSE k \in found : \A j \in found : k <= j) - 1
      inserted == splice(levelScores, insertIndex, newScore)
      trimmed == IF Len(inserted) > MAX_SCORES
                   THEN SubSeq(inserted, 1, Len(inserted) - 1)
                   ELSE inserted
  IN  IF insertIndex >= MAX_SCORES THEN [item |-> item, ret |-> 0]
      ELSE [item |-> saveHighScores([scores EXCEPT ![level] = trimmed]),
            ret |-> insertIndex + 1]

\* the times a call may submit
Times == 1..MaxTime

\* nothing submitted yet
NoneSubmitted == [l \in {Levels[i] : i \in 1..3} |-> [t \in Times |-> 0]]

RECURSIVE CountUpTo(_, _)
\* how many of the times 1..t were submitted, by the history counts
CountUpTo(counts, t) ==
  IF t = 0 THEN 0 ELSE counts[t] + CountUpTo(counts, t - 1)

\* no object heap is kept: the game is the one of the game variables
NoCopies == [calls |-> 0]

\* localStorage.getItem(GAME_STATE_KEY) returns null: no game is saved
NoSavedGame == [full |-> FALSE, present |-> FALSE, text |-> <<>>]

(***************************************************************************)
(* Validation of the custom level's settings.                              *)
(***************************************************************************)
\* what parseInt returns for a text that is no number; the other inputs are
\* integers
NaN == -999999

isNaN(x) == x = NaN

\* minePercentage 0.8 is kept as the fraction 4 / 5
CUSTOM_LIMITS ==
  [rows |-> [min |-> 5, max |-> 30],
   cols |-> [min |-> 5, max |-> 50],
   minePercentage |-> [num |-> 4, den |-> 5]]

\* Math.floor(rows * cols * 0.8): the double product of an integer below
\* 2^50 and 0.8 rounds to the integer 4n/5 when that is one and lies
\* strictly between its neighbours otherwise, so the floor is that of 4n/5
getMaxMines(rows, cols) ==
  (rows * cols * CUSTOM_LIMITS.minePercentage.num)
     \div CUSTOM_LIMITS.minePercentage.den

\* validateCustomSettings returns null for settings it accepts
Null == <<"null">>

\* the error message, with the numbers it shows, or Null
validateCustomSettings(rows, cols, mines) ==
  IF isNaN(rows) \/ isNaN(cols) \/ isNaN(mines)
    THEN <<"Please enter valid numbers">>
  ELSE IF rows < CUSTOM_LIMITS.rows.min \/ rows > CUSTOM_LIMITS.rows.max
    THEN <<"Rows must be between", CUSTOM_LIMITS.rows.min,
           CUSTOM_LIMITS.rows.max>>
  ELSE IF cols < CUSTOM_LIMITS.cols.min \/ cols > CUSTOM_LIMITS.cols.max
    THEN <<"Columns must be between", CUSTOM_LIMITS.cols.min,
           CUSTOM_LIMITS.cols.max>>
  ELSE IF mines < 1 THEN <<"Must have at least 1 mine">>
  ELSE IF mines > getMaxMines(rows, cols)
    THEN <<"Mines cannot exceed", getMaxMines(rows, cols), "(80% of cells)">>
  ELSE Null

\* the dialog as loadCustomSettings fills it when nothing is stored, no
\* error shown, and a preset level selected
NoCustom ==
  [rows |-> 10, cols |-> 10, mines |-> 15, error |-> Null,
   level |-> "beginner"]

(***************************************************************************)
(* The state machine: construction, then any sequence of calls.            *)
(***************************************************************************)
\* no placeMines call is under way: the methods run to their end in one step
NotPlacing ==
  [active |-> FALSE, excludeRow |-> 0, excludeCol |-> 0, minesPlaced |-> 0]

\* the coordinates callers pass: every cell of the grid, and one position
\* beyond each of its four edges
Coords ==
  Cells \cup {<<-1, 0>>, <<config.rows, 0>>, <<0, -1>>, <<0, config.cols>>}

Init ==
  /\ config \in Configs
  /\ board = initBoard
  /\ gameState = "playing"
  /\ flagCount = 0
  /\ firstClick = TRUE
  /\ placing = NotPlacing
  /\ stored = NoItem
  /\ submitted = NoneSubmitted
  /\ copies = NoCopies
  /\ gameStore = NoSavedGame
  /\ custom = NoCustom

\* the game becomes g, the game a call leaves behind
Becomes(g) ==
  /\ board' = g.board
  /\ gameState' = g.gameState
  /\ flagCount' = g.flagCount
  /\ firstClick' = g.firstClick
  /\ UNCHANGED <<config, placing, scoreVars, sideVars>>

\* does this reveal call reach placeMines
PlacesMines(g, row, col) ==
  /\ g.gameState = "playing"
  /\ InBounds(row, col)
  /\ ~g.board[<<row, col>>].isRevealed
  /\ ~g.board[<<row, col>>].isFlagged
  /\ g.firstClick

\* the outcomes of the random choices a call reveal(row, col) on g can meet
Placements(g, row, col) ==
  IF PlacesMines(g, row, col) THEN MinePlacements(row, col) ELSE {{}}

\* the cells of the upper left quarter of the board, middle row and middle
\* column included: every cell is the mirror image of one of them
FirstClicks == {p \in Cells : 2 * p[1] < config.rows /\ 2 * p[2] < config.cols}

\* the reveal that places the mines is made on a cell of FirstClicks: the
\* games after the other first reveals are mirror images of these
Reveal ==
  \E p \in Coords :
    /\ PlacesMines(Game, p[1], p[2]) => p \in FirstClicks
    /\ \E M \in Placements(Game, p[1], p[2]) :
         Becomes(reveal(Game, p[1], p[2], M).g)

ToggleFlag ==
  \E p \in Coords :
    /\ ~firstClick \/ config.rows * config.cols <= MaxEarlyCells
    /\ (p \in Cells /\ ~board[p].isFlagged) => flagCount < MaxFlags
    /\ Becomes(toggleFlag(Game, p[1], p[2]).g)

Chord ==
  \E p \in Coords :
    Becomes(chord(Game, p[1], p[2]).g)

\* the game is saved and replaced by the game restored from the snapshot
Restore ==
  LET d == deserialize(serialize(Game))
  IN  /\ config' = d.config
      /\ board' = d.g.board
      /\ gameState' = d.g.gameState
      /\ flagCount' = d.g.flagCount
      /\ firstClick' = d.g.firstClick
      /\ UNCHANGED <<placing, scoreVars, sideVars>>

Next == Reveal \/ ToggleFlag \/ Chord

Spec == Init /\ [][Next]_vars

\* the game with a save and a restore between any two calls
SavedNext == Reveal \/ ToggleFlag \/ Chord \/ Restore

SpecSaved == Init /\ [][SavedNext]_vars

TypeOK ==
  /\ config \in Configs
  /\ DOMAIN board = Cells
  /\ gameState \in {"playing", "won", "lost"}
  /\ flagCount \in Int
  /\ firstClick \in BOOLEAN
  /\ placing.active \in BOOLEAN

(***************************************************************************)
(* placeMines step by step: the while loop of placeMines, one iteration    *)
(* per step, from the call reveal makes after it cleared firstClick to the *)
(* call of calculateAdjacentMines.                                         *)
(***************************************************************************)
PlaceInit ==
  /\ config \in PlaceConfigs
  /\ board = initBoard
  /\ gameState = "playing"
  /\ flagCount = 0
  /\ firstClick = FALSE
  /\ \E p \in Cells :
       placing = [active |-> TRUE, excludeRow |-> p[1], excludeCol |-> p[2],
                  minesPlaced |-> 0]
  /\ stored = NoItem
  /\ submitted = NoneSubmitted
  /\ copies = NoCopies
  /\ gameStore = NoSavedGame
  /\ custom = NoCustom

\* the loop condition of placeMines
Looping == placing.active /\ placing.minesPlaced < maxMines

\* an iteration whose random cell lies in the excluded block or is a mine
\* already: nothing changes
PickRejected ==
  /\ Looping
  /\ \E q \in Cells :
       \/ Excluded(q, placing.excludeRow, placing.excludeCol)
       \/ board[q].isMine
  /\ UNCHANGED vars

\* an iteration whose random cell becomes a mine
PickAccepted ==
  /\ Looping
  /\ \E q \in Cells :
       /\ ~Excluded(q, placing.excludeRow, placing.excludeCol)
       /\ ~board[q].isMine
       /\ board' = [board EXCEPT ![q].isMine = TRUE]
  /\ placing' = [placing EXCEPT !.minesPlaced = @ + 1]
  /\ UNCHANGED <<config, gameState, flagCount, firstClick, scoreVars, sideVars>>

\* the loop has ended: calculateAdjacentMines, and placeMines returns
FinishPlacing ==
  /\ placing.active
  /\ ~(placing.minesPlaced < maxMines)
  /\ board' = calculateAdjacentMines(board)
  /\ placing' = [placing EXCEPT !.active = FALSE]
  /\ UNCHANGED <<config, gameState, flagCount, firstClick, scoreVars, sideVars>>

PlaceNext == PickRejected \/ PickAccepted \/ FinishPlacing

\* a fair random source: as long as some cell can still become a mine, one
\* such cell is picked in the end
SpecPlace ==
  /\ PlaceInit
  /\ [][PlaceNext]_vars
  /\ WF_vars(PickAccepted)
  /\ WF_vars(FinishPlacing)

(***************************************************************************)
(* The high-score table: empty storage, then any sequence of addHighScore  *)
(* calls.                                                                  *)
(***************************************************************************)
\* the number of addHighScore calls made
Submits ==
  CountUpTo(submitted["beginner"], MaxTime)
    + CountUpTo(submitted["master"], MaxTime)
    + CountUpTo(submitted["expert"], MaxTime)

ScoresInit ==
  /\ config = [rows |-> 1, cols |-> 1, mines |-> 0]
  /\ board = initBoard
  /\ gameState = "playing"
  /\ flagCount = 0
  /\ firstClick = TRUE
  /\ placing = NotPlacing
  /\ stored = NoItem
  /\ submitted = NoneSubmitted
  /\ copies = NoCopies
  /\ gameStore = NoSavedGame
  /\ custom = NoCustom

AddHighScore ==
  /\ Submits < MaxSubmits
  /\ \E level \in {Levels[i] : i \in 1..3}, time \in Times :
       /\ stored' = addHighScore(stored, level, time).item
       /\ submitted' = [submitted EXCEPT ![level][time] = @ + 1]
  /\ UNCHANGED <<config, board, gameState, flagCount, firstClick, placing,
               sideVars>>

SpecScores == ScoresInit /\ [][AddHighScore]_vars

(***************************************************************************)
(* The objects behind serialize and deserialize.  A cell is an object of   *)
(* the heap, a sequence of cell values indexed by address; the grid of a   *)
(* game and the grid of a snapshot are functions from <<row, col>> to      *)
(* addresses.  The methods of the game write to the cell objects its grid  *)
(* refers to; serialize builds new objects from the values it reads; the   *)
(* loop of deserialize stores new objects in the grid of the new game.     *)
(* gameState, flagCount and firstClick are primitive values, copied by     *)
(* assignment; the config object is shared and never written.  The field   *)
(* last of copies names the step made last.                                *)
(***************************************************************************)
\* where the object of cell p lies among the objects allocated after base
Addr(base, p) == base + p[1] * config.cols + p[2] + 1

\* the cell whose object lies at offset i, the inverse of Addr
CellAt(i) == <<(i - 1) \div config.cols, (i - 1) % config.cols>>

\* the cell values a grid refers to
View(heap, cells) == [p \in Cells |-> heap[cells[p]]]

\* the game of a game object, as the methods see it
GameOf(heap, obj) ==
  [board |-> View(heap, obj.cells), gameState |-> obj.gameState,
   flagCount |-> obj.flagCount, firstClick |-> obj.firstClick]

\* one new object for each cell of b, and the grid that refers to them
Allocate(heap, b) ==
  [heap |-> heap \o [i \in 1..(config.rows * config.cols) |-> b[CellAt(i)]],
   cells |-> [p \in Cells |-> Addr(Len(heap), p)]]

\* a method call that left the game g: the cell objects of the grid hold the
\* cells of g, every other object is as it was
Written(heap, cells, g) ==
  [a \in DOMAIN heap |->
     IF \E p \in Cells : cells[p] = a
       THEN g.board[CHOOSE p \in Cells : cells[p] = a]
       ELSE heap[a]]

\* no snapshot taken, no game restored
NoObject ==
  [present |-> FALSE, cells |-> [p \in Cells |-> 0], gameState |-> "playing",
   flagCount |-> 0, firstClick |-> TRUE]

\* the snapshot as the GameSaveData value the grid of a snapshot stands for
DataOf(heap, snap) ==
  [config |-> config,
   board |-> [r \in 1..config.rows |->
               [c \in 1..config.cols |-> heap[snap.cells[<<r - 1, c - 1>>]]]],
   gameState |-> snap.gameState,
   flagCount |-> snap.flagCount,
   firstClick |-> snap.firstClick]

\* serialize handing out the cell objects of the game itself
serializeObjects_SharedCells(heap, game) ==
  [heap |-> heap,
   obj |-> [present |-> TRUE, cells |-> game.cells,
            gameState |-> game.gameState, flagCount |-> game.flagCount,
            firstClick |-> game.firstClick]]

\* serialize: row.map(cell => ({...})) builds one new object per cell
serializeObjects(heap, game) ==
  LET data == serialize(GameOf(heap, game))
      new == Allocate(heap, [p \in Cells |-> data.board[p[1] + 1][p[2] + 1]])
  IN  [heap |-> new.heap,
       obj |-> [present |-> TRUE, cells |-> new.cells,
                gameState |-> data.gameState, flagCount |-> data.flagCount,
                firstClick |-> data.firstClick]]

\* deserialize: game.board[row][col] = {...} stores one new object per cell;
\* the cell objects the constructor made are unreachable after the loop
deserializeObjects(heap, snap) ==
  LET d == deserialize(DataOf(heap, snap)).g
      new == Allocate(heap, d.board)
  IN  [heap |-> new.heap,
       obj |-> [present |-> TRUE, cells |-> new.cells,
                gameState |-> d.gameState, flagCount |-> d.flagCount,
                firstClick |-> d.firstClick]]

\* the boards the objects are followed on: the smallest that holds a mine
CopyConfigs == {[rows |-> 2, cols |-> 5, mines |-> 1]}

CopiesInit ==
  /\ config \in CopyConfigs
  /\ board = initBoard
  /\ gameState = "playing"
  /\ flagCount = 0
  /\ firstClick = TRUE
  /\ placing = NotPlacing
  /\ stored = NoItem
  /\ submitted = NoneSubmitted
  /\ gameStore = NoSavedGame
  /\ custom = NoCustom
  /\ copies =
       [calls |-> 0,
        last |-> "constructor",
        heap |-> Allocate(<<>>, initBoard).heap,
        game |-> [NoObject EXCEPT !.present = TRUE,
                                  !.cells = Allocate(<<>>, initBoard).cells],
        snap |-> NoObject,
        restored |-> NoObject]

\* a call of reveal, toggleFlag or chord on the game object obj that returns
\* true: the outcomes r it can have
CallOutcomes(obj) ==
  LET g == GameOf(copies.heap, obj)
  IN  {r \in UNION {{toggleFlag(g, p[1], p[2]), chord(g, p[1], p[2])}
                      \cup {reveal(g, p[1], p[2], M) :
                              M \in Placements(g, p[1], p[2])} : p \in Cells} :
         r.ret}

\* what a call with outcome r makes of the game object obj
Called(obj, r) ==
  [obj EXCEPT !.gameState = r.g.gameState, !.flagCount = r.g.flagCount,
              !.firstClick = r.g.firstClick]

CopiesUnchanged ==
  UNCHANGED <<config, board, gameState, flagCount, firstClick, placing,
              scoreVars, gameStore, custom>>

\* a call on the original game
CallOnGame ==
  /\ copies.calls < MaxCopyCalls
  /\ \E r \in CallOutcomes(copies.game) :
       copies' = [copies EXCEPT
                    !.calls = @ + 1,
                    !.last = "call on the game",
                    !.heap = Written(@, copies.game.cells, r.g),
                    !.game = Called(@, r)]
  /\ CopiesUnchanged

\* serialize is called on the original game
TakeSnapshot ==
  /\ ~copies.snap.present
  /\ LET s == serializeObjects(copies.heap, copies.game)
     IN  copies' = [copies EXCEPT !.last = "serialize",
                                  !.heap = s.heap, !.snap = s.obj]
  /\ CopiesUnchanged

\* deserialize is called on the snapshot
RestoreSnapshot ==
  /\ copies.snap.present
  /\ ~copies.restored.present
  /\ LET d == deserializeObjects(copies.heap, copies.snap)
     IN  copies' = [copies EXCEPT !.last = "deserialize",
                                  !.heap = d.heap, !.restored = d.obj]
  /\ CopiesUnchanged

\* a call on the game deserialize built
CallOnRestored ==
  /\ copies.restored.present
  /\ copies.calls < MaxCopyCalls
  /\ \E r \in CallOutcomes(copies.restored) :
       copies' = [copies EXCEPT
                    !.calls = @ + 1,
                    !.last = "call on the restored game",
                    !.heap = Written(@, copies.restored.cells, r.g),
                    !.restored = Called(@, r)]
  /\ CopiesUnchanged

CopiesNext == CallOnGame \/ TakeSnapshot \/ RestoreSnapshot \/ CallOnRestored

SpecCopies == CopiesInit /\ [][CopiesNext]_vars

(***************************************************************************)
(* The saved game: GamePersistence of persistence.ts and the handlers of   *)
(* GameUI that call it.  The JSON text of the item is modelled as nested   *)
(* tuples.  A level stands for its config, the timer is not modelled: the  *)
(* level name, elapsedTime and savedAt of a saved state are fixed values.  *)
(* The field full of gameStore tells whether setItem throws for want of    *)
(* room; removeItem does not throw.                                        *)
(***************************************************************************)
\* this.currentLevel
CurrentLevel == "beginner"

\* Date.now()
SavedAt == "now"

\* JSON.stringify(savedState)
stringifySaved(state) ==
  << <<state.gameData.config.rows, state.gameData.config.cols,
       state.gameData.config.mines>>,
     [r \in DOMAIN state.gameData.board |->
        [c \in DOMAIN state.gameData.board[r] |->
           <<state.gameData.board[r][c].isMine,
             state.gameData.board[r][c].isRevealed,
             state.gameData.board[r][c].isFlagged,
             state.gameData.board[r][c].adjacentMines>>]],
     state.gameData.gameState, state.gameData.flagCount,
     state.gameData.firstClick,
     state.level, state.elapsedTime, state.savedAt >>

\* JSON.parse(saved)
parseSaved(text) ==
  [gameData |->
     [config |-> [rows |-> text[1][1], cols |-> text[1][2], mines |-> text[1][3]],
      board |-> [r \in DOMAIN text[2] |->
                  [c \in DOMAIN text[2][r] |->
                     [isMine |-> text[2][r][c][1],
                      isRevealed |-> text[2][r][c][2],
                      isFlagged |-> text[2][r][c][3],
                      adjacentMines |-> text[2][r][c][4]]]],
      gameState |-> text[3], flagCount |-> text[4], firstClick |-> text[5]],
   level |-> text[6], elapsedTime |-> text[7], savedAt |-> text[8]]

\* GamePersistence.clearSavedGame
clearSavedGame(store) == [store EXCEPT !.present = FALSE, !.text = <<>>]

\* saveGame that leaves the item alone when the game is over
saveGame_KeepsOld(store, g, level, elapsedTime) ==
  IF g.gameState # "playing" \/ store.full THEN store
  ELSE [store EXCEPT
          !.present = TRUE,
          !.text = stringifySaved([gameData |-> serialize(g), level |-> level,
                                   elapsedTime |-> elapsedTime,
                                   savedAt |-> SavedAt])]

\* GamePersistence.saveGame: the item it leaves
saveGame(store, g, level, elapsedTime) ==
  IF g.gameState # "playing" THEN clearSavedGame(store)
  \* setItem throws and the catch block logs the error
  ELSE IF store.full THEN store
  ELSE [store EXCEPT
          !.present = TRUE,
          !.text = stringifySaved([gameData |-> serialize(g), level |-> level,
                                   elapsedTime |-> elapsedTime,
                                   savedAt |-> SavedAt])]

\* GamePersistence.loadGame: the saved state it returns, found FALSE for
\* null.  Every item the model stores has its gameData, its level and a
\* number for elapsedTime, so the branch that clears a damaged item is not
\* taken
loadGame(store) ==
  IF store.present THEN [found |-> TRUE, state |-> parseSaved(store.text)]
  ELSE [found |-> FALSE, state |-> <<>>]

\* GamePersistence.restoreGame
restoreGame(savedState) == deserialize(savedState.gameData)

\* GameUI.checkGameEnd, the part that touches the saved game
checkGameEnd(store, g) ==
  IF g.gameState \in {"won", "lost"} THEN clearSavedGame(store) ELSE store

\* GameUI.autoSave
autoSave(store, g) == saveGame(store, g, CurrentLevel, 0)

\* the end of handleClick and handleRightClick: the game is g, then
\* checkGameEnd and autoSave
Handled(g) ==
  /\ board' = g.board
  /\ gameState' = g.gameState
  /\ flagCount' = g.flagCount
  /\ firstClick' = g.firstClick
  /\ gameStore' = autoSave(checkGameEnd(gameStore, g), g)
  /\ UNCHANGED <<config, placing, scoreVars, copies, custom>>

\* the page is opened with nothing saved, with or without room in storage
UIInit ==
  /\ config \in Configs
  /\ board = initBoard
  /\ gameState = "playing"
  /\ flagCount = 0
  /\ firstClick = TRUE
  /\ placing = NotPlacing
  /\ stored = NoItem
  /\ submitted = NoneSubmitted
  /\ copies = NoCopies
  /\ gameStore \in {NoSavedGame, [NoSavedGame EXCEPT !.full = TRUE]}
  /\ custom = NoCustom

\* GameUI.handleClick on a cell of the board: chord on a revealed cell,
\* reveal on any other
HandleClick ==
  /\ gameState = "playing"
  /\ \E p \in Cells :
       IF board[p].isRevealed
         THEN Handled(chord(Game, p[1], p[2]).g)
         ELSE /\ PlacesMines(Game, p[1], p[2]) => p \in FirstClicks
              /\ \E M \in Placements(Game, p[1], p[2]) :
                   Handled(reveal(Game, p[1], p[2], M).g)

\* GameUI.handleRightClick on a cell of the board
HandleRightClick ==
  /\ gameState = "playing"
  /\ \E p \in Cells :
       /\ ~firstClick \/ config.rows * config.cols <= MaxEarlyCells
       /\ ~board[p].isFlagged => flagCount < MaxFlags
       /\ Handled(toggleFlag(Game, p[1], p[2]).g)

\* GameUI.selectLevel: the saved game is cleared and a new game started
SelectLevel ==
  /\ config' \in Configs
  /\ board' = [p \in (0..(config'.rows - 1)) \X (0..(config'.cols - 1)) |->
                 [isMine |-> FALSE, isRevealed |-> FALSE,
                  isFlagged |-> FALSE, adjacentMines |-> 0]]
  /\ gameState' = "playing"
  /\ flagCount' = 0
  /\ firstClick' = TRUE
  /\ gameStore' = clearSavedGame(gameStore)
  /\ UNCHANGED <<placing, scoreVars, copies, custom>>

\* the page is opened again while a game is saved, and the player resumes:
\* checkForSavedGame and restoreSavedGame
Resume ==
  /\ loadGame(gameStore).found
  /\ LET d == restoreGame(loadGame(gameStore).state)
     IN  /\ config' = d.config
         /\ board' = d.g.board
         /\ gameState' = d.g.gameState
         /\ flagCount' = d.g.flagCount
         /\ firstClick' = d.g.firstClick
  /\ UNCHANGED <<placing, scoreVars, sideVars>>

UINext == HandleClick \/ HandleRightClick \/ SelectLevel \/ Resume

SpecUI == UIInit /\ [][UINext]_vars

(***************************************************************************)
(* The custom level: the dialog's inputs, startCustomGame and the first    *)
(* reveal on the board built from the accepted settings.                   *)
(***************************************************************************)
\* the preset level the page opens with
LEVELS == [beginner |-> [rows |-> 9, cols |-> 9, mines |-> 10]]

\* the values parseInt reads from the three inputs: around the limits of
\* rows and columns, and for mines around 1, rows * cols - 9 and 80%
CustomRows == {NaN, 4, 5, 31}

CustomCols == {4, 5, 51}

CustomMines == {NaN, 0, 1, 16, 17, 20, 21}

CustomInit ==
  /\ config = LEVELS.beginner
  /\ board = initBoard
  /\ gameState = "playing"
  /\ flagCount = 0
  /\ firstClick = TRUE
  /\ placing = NotPlacing
  /\ stored = NoItem
  /\ submitted = NoneSubmitted
  /\ copies = NoCopies
  /\ gameStore = NoSavedGame
  /\ custom = NoCustom

\* the player fills in the three inputs of the dialog
TypeCustom ==
  /\ custom.level = "beginner"
  /\ \E rows \in CustomRows, cols \in CustomCols, mines \in CustomMines :
       custom' = [custom EXCEPT !.rows = rows, !.cols = cols, !.mines = mines]
  /\ UNCHANGED <<config, board, gameState, flagCount, firstClick, placing,
                 scoreVars, copies, gameStore>>

\* GameUI.startCustomGame: the error is shown, or the settings become the
\* custom level's config and selectLevel('custom') starts a new game
StartCustomGame ==
  /\ custom.level = "beginner"
  /\ LET error == validateCustomSettings(custom.rows, custom.cols, custom.mines)
     IN  IF error # Null
           THEN /\ custom' = [custom EXCEPT !.error = error]
                /\ UNCHANGED <<config, board, gameState, flagCount,
                               firstClick, gameStore>>
           ELSE /\ custom' = [custom EXCEPT !.level = "custom"]
                /\ config' = [rows |-> custom.rows, cols |-> custom.cols,
                              mines |-> custom.mines]
                /\ board' = [p \in (0..(custom.rows - 1)) \X
                                   (0..(custom.cols - 1)) |->
                               [isMine |-> FALSE, isRevealed |-> FALSE,
                                isFlagged |-> FALSE, adjacentMines |-> 0]]
                /\ gameState' = "playing"
                /\ flagCount' = 0
                /\ firstClick' = TRUE
                /\ gameStore' = clearSavedGame(gameStore)
  /\ UNCHANGED <<placing, scoreVars, copies>>

\* the first clicks whose 3x3 block lies on the board
InnerClicks ==
  {p \in FirstClicks :
     \A i \in 1..8 : InBounds(p[1] + Offsets[i][1], p[2] + Offsets[i][2])}

\* the first reveal on the custom board, on boards of at most MaxCustomCells
\* cells
CustomReveal ==
  /\ custom.level = "custom"
  /\ firstClick
  /\ config.rows * config.cols <= MaxCustomCells
  /\ \E p \in InnerClicks :
       \E M \in Placements(Game, p[1], p[2]) :
         LET g == reveal(Game, p[1], p[2], M).g
         IN  /\ board' = g.board
             /\ gameState' = g.gameState
             /\ flagCount' = g.flagCount
             /\ firstClick' = g.firstClick
  /\ UNCHANGED <<config, placing, scoreVars, sideVars>>

CustomNext == TypeCustom \/ StartCustomGame \/ CustomReveal

SpecCustom == CustomInit /\ [][CustomNext]_vars

(***************************************************************************)
(* Properties.  A property about a call is stated of the operator that     *)
(* models the method, applied to the game of every reachable state with    *)
(* every coordinate of Coords and every outcome of the random placement.   *)
(***************************************************************************)
\* what a call returns when it does nothing
Rejected(g) == [g |-> g, ret |-> FALSE]

\* the in-bounds Moore neighbours of a cell
Neighbours(p) ==
  {q \in Cells : q # p /\ Abs(q[1] - p[1]) <= 1 /\ Abs(q[2] - p[2]) <= 1}

MineCells(b) == {p \in DOMAIN b : b[p].isMine}

FlaggedCells(b) == {p \in DOMAIN b : b[p].isFlagged}

UnrevealedSafeCells(b) == {p \in DOMAIN b : ~b[p].isMine /\ ~b[p].isRevealed}

AllMinesRevealed(b) == \A p \in DOMAIN b : b[p].isMine => b[p].isRevealed

\* C1: once the game is Won or Lost, every reveal, toggleFlag and chord call,
\* with any coordinates, returns false and leaves every cell, flagCount and
\* gameState as they were (so Won never becomes Lost, nor Lost Won)
C1_Absorbing ==
  gameState \in {"won", "lost"} =>
    \A p \in Coords :
      /\ reveal(Game, p[1], p[2], {}) = Rejected(Game)
      /\ toggleFlag(Game, p[1], p[2]) = Rejected(Game)
      /\ chord(Game, p[1], p[2]) = Rejected(Game)

\* a lost game that still has covered cells for a call to act on
C1_Witness ==
  /\ gameState = "lost"
  /\ \E p \in Cells : ~board[p].isRevealed /\ ~board[p].isFlagged
  /\ \E p \in Cells : ~board[p].isRevealed /\ board[p].isFlagged

\* C2: the first reveal that is not rejected, at (r, c), leaves neither
\* (r, c) nor any of its in-bounds neighbours a mine, and does not lose
C2_SafeFirstClick ==
  firstClick =>
    \A p \in Coords : \A M \in Placements(Game, p[1], p[2]) :
      LET r == reveal(Game, p[1], p[2], M)
      IN  r.ret =>
            /\ ~r.g.board[p].isMine
            /\ \A q \in Neighbours(p) : ~r.g.board[q].isMine
            /\ r.g.gameState # "lost"

\* the game right after a first reveal that placed mines and opened a cell
\* together with all its neighbours
C2_Witness ==
  /\ ~firstClick
  /\ gameState = "playing"
  /\ MineCells(board) # {}
  /\ \E p \in Cells :
       /\ board[p].isRevealed
       /\ \A q \in Neighbours(p) : board[q].isRevealed /\ ~board[q].isMine

\* C3: on a covered unmarked cell of a game that stays Playing, three
\* successive toggleFlag calls bring the cell back to unmarked; flagCount is
\* one higher after the first call, back at its start after the second and
\* unchanged by the third
C3_MarkCycle ==
  gameState = "playing" =>
    \A p \in Cells :
      (~board[p].isRevealed /\ ~board[p].isFlagged) =>
        LET t1 == toggleFlag(Game, p[1], p[2]).g
            t2 == toggleFlag(t1, p[1], p[2]).g
            t3 == toggleFlag(t2, p[1], p[2]).g
        IN  /\ t1.board[p].isFlagged
            /\ t1.flagCount = flagCount + 1
            /\ t1.gameState = "playing" =>
                 /\ ~t2.board[p].isFlagged
                 /\ t2.flagCount = flagCount
                 /\ t2.gameState = "playing" =>
                      /\ ~t3.board[p].isFlagged
                      /\ t3.flagCount = flagCount

\* C4: flagCount is the number of flagged cells, so it is never negative
C4_FlagCount ==
  /\ flagCount = Cardinality(FlaggedCells(board))
  /\ flagCount >= 0

\* a game in play, after the first reveal, with a flag on the board
C4_Witness ==
  /\ gameState = "playing"
  /\ ~firstClick
  /\ flagCount = MaxFlags

\* C5 as claimed: in every state, the won and lost ones included, a revealed
\* cell carries no mark
C5_RevealedUnmarked ==
  \A p \in Cells : board[p].isRevealed => ~board[p].isFlagged

\* C5 as amended: while Playing a revealed cell carries no mark, and in a
\* lost game the revealed cells that still carry a flag are mines
C5_RevealedUnmarkedInPlay ==
  /\ gameState = "playing" =>
       \A p \in Cells : board[p].isRevealed => ~board[p].isFlagged
  /\ gameState = "lost" =>
       \A p \in Cells :
         (board[p].isRevealed /\ board[p].isFlagged) => board[p].isMine

\* a lost game whose unveil uncovered a flagged mine, next to opened cells
C5_Witness ==
  /\ gameState = "lost"
  /\ \E p \in Cells : board[p].isRevealed /\ board[p].isFlagged
  /\ \E p \in Cells : board[p].isRevealed /\ ~board[p].isMine

\* C6: reveal applied to a covered unflagged mine while Playing, directly or
\* by a chord that passes its gate next to such a mine, returns true and
\* leaves the game Lost with every mine revealed; so every mine of a lost
\* game is revealed
C6_MineLoses ==
  /\ gameState = "lost" => AllMinesRevealed(board)
  /\ gameState = "playing" =>
       \A p \in Cells :
         /\ (board[p].isMine /\ ~board[p].isRevealed /\ ~board[p].isFlagged) =>
              LET r == reveal(Game, p[1], p[2], {})
              IN  /\ r.ret
                  /\ r.g.gameState = "lost"
                  /\ AllMinesRevealed(r.g.board)
         /\ LET c == chord(Game, p[1], p[2])
            IN  (/\ c.ret
                 /\ \E q \in Neighbours(p) :
                      /\ board[q].isMine
                      /\ ~board[q].isRevealed
                      /\ ~board[q].isFlagged) =>
                  /\ c.g.gameState = "lost"
                  /\ AllMinesRevealed(c.g.board)

\* a lost game with two mines, a covered safe cell left
C6_Witness ==
  /\ gameState = "lost"
  /\ Cardinality(MineCells(board)) = 2
  /\ UnrevealedSafeCells(board) # {}

\* C7: a reveal that leaves no covered safe cell wins in that same call, so
\* a game in play after mine placement has a covered safe cell
C7_AllSafeRevealedWins ==
  gameState = "playing" =>
    /\ ~firstClick => UnrevealedSafeCells(board) # {}
    /\ \A p \in Coords : \A M \in Placements(Game, p[1], p[2]) :
         LET r == reveal(Game, p[1], p[2], M)
         IN  (r.ret /\ UnrevealedSafeCells(r.g.board) = {}) =>
               r.g.gameState = "won"

\* a game won with a mine that was never flagged: won by opening safe cells
C7_Witness ==
  /\ gameState = "won"
  /\ \E p \in Cells : board[p].isMine /\ ~board[p].isFlagged

\* C8: a toggleFlag call made while Playing, after the first reveal, that
\* leaves flagCount equal to mineCount with every mine flagged leaves the
\* game Won
C8_AllMinesFlaggedWins ==
  (gameState = "playing" /\ ~firstClick) =>
    \A p \in Coords :
      LET t == toggleFlag(Game, p[1], p[2]).g
      IN  (/\ t.flagCount = config.mines
           /\ \A q \in Cells : t.board[q].isMine => t.board[q].isFlagged) =>
            t.gameState = "won"

\* a game in play, after the first reveal, that one flag on a mine wins
\* although two safe cells are still covered
C8_Witness ==
  /\ gameState = "playing"
  /\ ~firstClick
  /\ Cardinality(UnrevealedSafeCells(board)) >= 2
  /\ \E p \in Cells :
       /\ board[p].isMine
       /\ toggleFlag(Game, p[1], p[2]).g.gameState = "won"

\* C9: in a won game every cell, mines included, is revealed
C9_WonUnveilsAll ==
  gameState = "won" => \A p \in Cells : board[p].isRevealed

\* a won game with a mine on the board
C9_Witness ==
  /\ gameState = "won"
  /\ MineCells(board) # {}

\* C10: when a toggleFlag call wins a game in which a safe cell was still
\* covered (a win by the all-mines-flagged rule), every flagged cell is a
\* mine
C10_NoStrayFlagAtFlagWin ==
  gameState = "playing" =>
    \A p \in Cells :
      LET t == toggleFlag(Game, p[1], p[2]).g
      IN  (t.gameState = "won" /\ UnrevealedSafeCells(board) # {}) =>
            \A q \in Cells : t.board[q].isFlagged => t.board[q].isMine

\* C11 as claimed: once the first reveal has placed the mines, the number of
\* mine cells is min(mineCount, rows * cols - 9), on every board
C11_MineCount ==
  ~firstClick =>
    Cardinality(MineCells(board)) =
      Min(config.mines, config.rows * config.cols - 9)

\* C11 as amended: the number of mine cells is min(mineCount, rows * cols - 9)
\* when that is positive and 0 otherwise, from the first accepted reveal on;
\* before it no cell is a mine
C11_MineCountClamped ==
  LET fit == config.rows * config.cols - 9
      expected == IF config.mines < fit THEN config.mines ELSE fit
  IN  Cardinality(MineCells(board)) =
        IF firstClick \/ expected < 0 THEN 0 ELSE expected

\* mines placed on a board that was asked for more mines than it holds
C11_Witness ==
  /\ ~firstClick
  /\ MineCells(board) # {}
  /\ Cardinality(MineCells(board)) < config.mines

\* C12: every cell that is not a mine carries in adjacentMines the number of
\* mines among its Moore neighbours inside the grid, a value in 0..8
C12_AdjacentMines ==
  \A p \in Cells :
    ~board[p].isMine =>
      /\ board[p].adjacentMines =
           Cardinality({q \in Neighbours(p) : board[q].isMine})
      /\ board[p].adjacentMines \in 0..8

\* a safe cell on the edge of the grid that touches two mines, one of them
\* diagonally
C12_Witness ==
  \E p \in Cells :
    /\ p[1] = 0
    /\ ~board[p].isMine
    /\ board[p].adjacentMines = 2
    /\ \E q \in Neighbours(p) :
         board[q].isMine /\ q[1] # p[1] /\ q[2] # p[2]

\* C13: a reveal call made when the game is not Playing, or at coordinates
\* outside the grid, or on a revealed cell, or on a flagged cell, returns
\* false and leaves the cells, flagCount, gameState and firstClick unchanged
C13_RevealNoOp ==
  \A p \in Coords :
    (\/ gameState # "playing"
     \/ p \notin Cells
     \/ board[p].isRevealed
     \/ board[p].isFlagged) =>
      \A M \in (IF firstClick THEN MinePlacements(p[1], p[2]) ELSE {{}}) :
        reveal(Game, p[1], p[2], M) = Rejected(Game)

\* a game in play with no mines placed yet and a flagged cell, where a
\* reveal of that cell must not use up the first click
C13_Witness ==
  /\ gameState = "playing"
  /\ firstClick
  /\ \E p \in Cells : board[p].isFlagged

\* C14: a toggleFlag call made when the game is not Playing, or at
\* coordinates outside the grid, or on a revealed cell, returns false and
\* leaves every cell, flagCount and gameState unchanged
C14_ToggleFlagNoOp ==
  \A p \in Coords :
    (\/ gameState # "playing"
     \/ p \notin Cells
     \/ board[p].isRevealed) =>
      toggleFlag(Game, p[1], p[2]) = Rejected(Game)

\* a game in play with a revealed cell next to a covered one and a flag set
C14_Witness ==
  /\ gameState = "playing"
  /\ flagCount > 0
  /\ \E p \in Cells :
       /\ board[p].isRevealed
       /\ \E q \in Neighbours(p) : ~board[q].isRevealed

\* the number of flagged cells among the in-bounds Moore neighbours of p
FlaggedNeighbours(b, p) == Cardinality({q \in Neighbours(p) : b[q].isFlagged})

\* the gate of chord: the game is Playing and p is a revealed cell of the
\* grid whose positive adjacentMines equals its number of flagged neighbours
ChordGate(g, p) ==
  /\ g.gameState = "playing"
  /\ p \in Cells
  /\ g.board[p].isRevealed
  /\ g.board[p].adjacentMines > 0
  /\ FlaggedNeighbours(g.board, p) = g.board[p].adjacentMines

\* C15: a chord call that does not pass the gate returns false and changes
\* no cell, nor flagCount, nor gameState
C15_ChordNoOp ==
  \A p \in Coords :
    ~ChordGate(Game, p) => chord(Game, p[1], p[2]) = Rejected(Game)

\* a game in play with a revealed cell that touches two mines, one flagged
\* neighbour and a covered unflagged one: the flag count does not match
C15_Witness ==
  /\ gameState = "playing"
  /\ \E p \in Cells :
       /\ board[p].isRevealed
       /\ board[p].adjacentMines = 2
       /\ FlaggedNeighbours(board, p) = 1
       /\ \E q \in Neighbours(p) : ~board[q].isRevealed /\ ~board[q].isFlagged

\* the neighbours of p that chord hands to reveal: in the grid, neither
\* flagged nor revealed
ChordTargets(b, p) ==
  {q \in Neighbours(p) : ~b[q].isFlagged /\ ~b[q].isRevealed}

\* C16: a chord call that passes the gate returns true and touches no flag;
\* with no eligible neighbour it changes nothing, with one eligible
\* neighbour it leaves the game as reveal of that neighbour does, and if the
\* game is still Playing afterwards every neighbour is revealed or flagged,
\* the flagged ones still covered
C16_ChordReveals ==
  \A p \in Cells :
    ChordGate(Game, p) =>
      LET c == chord(Game, p[1], p[2])
          targets == ChordTargets(board, p)
      IN  /\ c.ret
          /\ c.g.flagCount = flagCount
          /\ \A q \in Cells : c.g.board[q].isFlagged = board[q].isFlagged
          /\ targets = {} => c.g = Game
          /\ \A q \in targets :
               targets = {q} => c.g = reveal(Game, q[1], q[2], {}).g
          /\ c.g.gameState = "playing" =>
               \A q \in Neighbours(p) :
                 c.g.board[q].isRevealed = ~board[q].isFlagged

\* a game in play where one chord passes the gate with nothing left to open
\* and another opens a covered neighbour and leaves the game in play
C16_Witness ==
  /\ gameState = "playing"
  /\ \E p \in Cells :
       ChordGate(Game, p) /\ ChordTargets(board, p) = {}
  /\ \E p \in Cells :
       /\ ChordGate(Game, p)
       /\ ChordTargets(board, p) # {}
       /\ chord(Game, p[1], p[2]).g.gameState = "playing"

\* the second pair of for loops of chord with the neighbours visited in the
\* order ord, a permutation of the indexes of Offsets
chordInOrder(g, row, col, ord) ==
  LET at(h, i) == chordReveal(h, row + Offsets[ord[i]][1],
                                 col + Offsets[ord[i]][2])
      n1 == at(g, 1)
      n2 == at(n1, 2)
      n3 == at(n2, 3)
      n4 == at(n3, 4)
      n5 == at(n4, 5)
      n6 == at(n5, 6)
      n7 == at(n6, 7)
  IN  at(n7, 8)

\* visiting orders: that of the code, its reverse, and two mixed ones
VisitOrders ==
  {<<1, 2, 3, 4, 5, 6, 7, 8>>, <<8, 7, 6, 5, 4, 3, 2, 1>>,
   <<5, 4, 7, 2, 8, 1, 6, 3>>, <<3, 6, 1, 8, 2, 7, 4, 5>>}

\* C17: a chord call that passes the gate while a covered unflagged
\* neighbour is a mine returns true and leaves the game Lost with that mine
\* revealed, and so does the neighbour loop in every other visiting order
C17_ChordRisk ==
  \A p \in Cells :
    (ChordGate(Game, p) /\ \E q \in ChordTargets(board, p) : board[q].isMine) =>
      /\ LET c == chord(Game, p[1], p[2])
         IN  /\ c.ret
             /\ c.g.gameState = "lost"
             /\ \A q \in ChordTargets(board, p) :
                  board[q].isMine => c.g.board[q].isRevealed
      /\ \A ord \in VisitOrders :
           chordInOrder(Game, p[1], p[2], ord).gameState = "lost"

\* a game in play where the only flag next to a revealed numbered cell sits
\* on a safe cell, the mine is covered and unflagged, and a safe neighbour
\* is visited before the mine
C17_Witness ==
  /\ gameState = "playing"
  /\ \E p \in Cells :
       /\ ChordGate(Game, p)
       /\ \E q \in Neighbours(p) : board[q].isFlagged /\ ~board[q].isMine
       /\ \E q, m \in ChordTargets(board, p) :
            /\ ~board[q].isMine
            /\ board[m].isMine
            /\ q[1] < m[1] \/ (q[1] = m[1] /\ q[2] < m[2])

\* C18: while firstClick is set no cell is a mine; toggleFlag, chord and
\* rejected reveal calls leave firstClick and the mines as they are; the
\* first accepted reveal clears firstClick and places the mines outside the
\* 3x3 block around its own coordinates; every later accepted reveal leaves
\* the mines where they are
C18_PlacedOnce ==
  /\ firstClick => MineCells(board) = {}
  /\ \A p \in Coords :
       LET t == toggleFlag(Game, p[1], p[2]).g
           c == chord(Game, p[1], p[2]).g
       IN  /\ t.firstClick = firstClick
           /\ MineCells(t.board) = MineCells(board)
           /\ c.firstClick = firstClick
           /\ MineCells(c.board) = MineCells(board)
           /\ \A M \in Placements(Game, p[1], p[2]) :
                LET r == reveal(Game, p[1], p[2], M)
                IN  IF r.ret
                      THEN /\ ~r.g.firstClick
                           /\ MineCells(r.g.board) =
                                IF firstClick THEN M ELSE MineCells(board)
                           /\ firstClick =>
                                MineCells(r.g.board) \cap (Neighbours(p) \cup {p}) = {}
                      ELSE /\ r.g.firstClick = firstClick
                           /\ MineCells(r.g.board) = MineCells(board)

\* a game in play with the mines placed around an opened mine-free block,
\* a flag set, and a mine that is flagged
C18_Witness ==
  /\ gameState = "playing"
  /\ ~firstClick
  /\ \E p \in Cells : board[p].isMine /\ board[p].isFlagged
  /\ \E p \in Cells :
       /\ board[p].isRevealed
       /\ board[p].adjacentMines = 0

\* C19 as claimed: on a board built with mineCount = 0 the first accepted
\* reveal, whatever calls came before it, leaves every cell revealed and
\* the game Won
C19_ZeroMinesFirstReveal ==
  (config.mines = 0 /\ firstClick) =>
    \A p \in Coords : \A M \in Placements(Game, p[1], p[2]) :
      LET r == reveal(Game, p[1], p[2], M)
      IN  r.ret =>
            /\ r.g.gameState = "won"
            /\ \A q \in Cells : r.g.board[q].isRevealed

\* C19 as amended: on a board built with mineCount = 0 the first accepted
\* reveal made while no cell is flagged leaves every cell revealed and the
\* game Won
C19_ZeroMinesNoFlags ==
  (config.mines = 0 /\ firstClick /\ FlaggedCells(board) = {}) =>
    \A p \in Coords : \A M \in Placements(Game, p[1], p[2]) :
      LET r == reveal(Game, p[1], p[2], M)
      IN  r.ret =>
            /\ r.g.gameState = "won"
            /\ \A q \in Cells : r.g.board[q].isRevealed

\* a game on a board of several cells built with mineCount = 0, won by its
\* first reveal with no flag set
C19_Witness ==
  /\ config.mines = 0
  /\ config.rows * config.cols > 1
  /\ gameState = "won"
  /\ ~firstClick
  /\ flagCount = 0

\* reading isQuestionMark of a cell object: initBoard and deserialize build
\* the cells without that property, and no method adds it
isQuestionMark(cell) ==
  "isQuestionMark" \in DOMAIN cell /\ cell.isQuestionMark

\* C20: a covered cell that two toggleFlag calls have taken from unmarked
\* over flagged to question-marked, the game still Playing, carries a
\* question mark; reveal on it returns true, reveals it and clears the mark
C20_QuestionedRevealable ==
  gameState = "playing" =>
    \A p \in Cells :
      (~board[p].isRevealed /\ ~board[p].isFlagged) =>
        LET t1 == toggleFlag(Game, p[1], p[2]).g
            t2 == toggleFlag(t1, p[1], p[2]).g
        IN  (t1.gameState = "playing" /\ t2.gameState = "playing") =>
              /\ isQuestionMark(t2.board[p])
              /\ \A M \in Placements(t2, p[1], p[2]) :
                   LET r == reveal(t2, p[1], p[2], M)
                   IN  /\ r.ret
                       /\ r.g.board[p].isRevealed
                       /\ ~isQuestionMark(r.g.board[p])

C22_RestoredBehaves ==
  LET d == deserialize(serialize(Game)).g
  IN  \A p \in Coords :
        /\ toggleFlag(d, p[1], p[2]) = toggleFlag(Game, p[1], p[2])
        /\ chord(d, p[1], p[2]) = chord(Game, p[1], p[2])
        /\ PlacesMines(d, p[1], p[2]) = PlacesMines(Game, p[1], p[2])
        /\ \A M \in Placements(d, p[1], p[2]) \cup Placements(Game, p[1], p[2]) :
             LET r == reveal(d, p[1], p[2], M)
             IN  /\ r = reveal(Game, p[1], p[2], M)
                 /\ ~firstClick => MineCells(r.g.board) = MineCells(board)

\* a game in play after mine placement where a chord would open cells and a
\* covered mine could be revealed: calls that tell a restored game apart
\* from one that lost its state
C22_Witness ==
  /\ gameState = "playing"
  /\ ~firstClick
  /\ \E p \in Cells : ChordGate(Game, p) /\ ChordTargets(board, p) # {}
  /\ \E p \in Cells : board[p].isMine /\ ~board[p].isFlagged

\* an object without one of its properties
Without(obj, name) == [f \in DOMAIN obj \ {name} |-> obj[f]]

\* the malformed snapshots made from a snapshot: one field missing, or the
\* grid a row or a column short or long of the declared rows and cols
Malformed(data) ==
  {Without(data, f) : f \in DOMAIN data}
    \cup {[data EXCEPT !.board = SubSeq(@, 1, Len(@) - 1)],
          [data EXCEPT !.board = Append(@, @[1])],
          [data EXCEPT !.board = [r \in DOMAIN @ |-> SubSeq(@[r], 1, Len(@[r]) - 1)]],
          [data EXCEPT !.board = [r \in DOMAIN @ |-> Append(@[r], @[r][1])]]}

\* C23: deserialize applied to a malformed snapshot fails with the
\* invalid-snapshot error and returns no game
C23_RejectsMalformed ==
  \A m \in Malformed(serialize(Game)) :
    deserializeOutcome(m).kind = "InvalidSnapshot"

\* on the snapshots the game itself produces deserializeOutcome returns the
\* game deserialize builds
DeserializeAgrees ==
  LET d == deserialize(serialize(Game))
      o == deserializeOutcome(serialize(Game))
  IN  o = [kind |-> "returned", config |-> d.config, g |-> d.g]

\* C24: while Playing no toggleFlag call leaves the game Lost; a reveal call
\* leaves it Lost only if its target is a covered unflagged mine, and a
\* chord call only if one of the neighbours it hands to reveal is a mine
C24_LostOnlyByMine ==
  gameState = "playing" =>
    \A p \in Coords :
      /\ toggleFlag(Game, p[1], p[2]).g.gameState # "lost"
      /\ \A M \in Placements(Game, p[1], p[2]) :
           LET r == reveal(Game, p[1], p[2], M).g
           IN  r.gameState = "lost" =>
                 /\ p \in Cells
                 /\ board[p].isMine
                 /\ ~board[p].isRevealed
                 /\ ~board[p].isFlagged
                 /\ r.board[p].isRevealed
      /\ LET c == chord(Game, p[1], p[2]).g
         IN  c.gameState = "lost" =>
               /\ p \in Cells
               /\ \E q \in ChordTargets(board, p) :
                    board[q].isMine /\ c.board[q].isRevealed

\* a lost game in which a flag sits on a safe cell and a safe cell next to
\* a mine was opened before the mine was
C24_Witness ==
  /\ gameState = "lost"
  /\ \E p \in Cells : board[p].isFlagged /\ ~board[p].isMine
  /\ \E p \in Cells :
       /\ board[p].isRevealed
       /\ ~board[p].isMine
       /\ board[p].adjacentMines > 0

\* chord once more, counting the activations of reveal it causes
chordCount(g, row, col) ==
  IF g.gameState # "playing" THEN [g |-> g, n |-> 0]
  ELSE IF \/ ~InBounds(row, col)
          \/ ~g.board[<<row, col>>].isRevealed
          \/ g.board[<<row, col>>].adjacentMines = 0
    THEN [g |-> g, n |-> 0]
  ELSE IF adjacentFlags(g.board, row, col) = g.board[<<row, col>>].adjacentMines
    THEN LET pass(c, r, k) ==
               IF /\ InBounds(r, k)
                  /\ ~c.g.board[<<r, k>>].isFlagged
                  /\ ~c.g.board[<<r, k>>].isRevealed
                 THEN LET x == revealCount(c.g, r, k, {})
                      IN  [g |-> x.g, n |-> c.n + x.n]
                 ELSE c
             c1 == pass([g |-> g, n |-> 0], row - 1, col - 1)
             c2 == pass(c1, row - 1, col)
             c3 == pass(c2, row - 1, col + 1)
             c4 == pass(c3, row, col - 1)
             c5 == pass(c4, row, col + 1)
             c6 == pass(c5, row + 1, col - 1)
             c7 == pass(c6, row + 1, col)
         IN  pass(c7, row + 1, col + 1)
  ELSE [g |-> g, n |-> 0]

\* the cells a reveal can still enter: covered and not flagged
Enterable(b) == {q \in DOMAIN b : ~b[q].isRevealed /\ ~b[q].isFlagged}

\* the cells revealed in b2 and not in b1
NewlyRevealed(b1, b2) == {q \in DOMAIN b1 : ~b1[q].isRevealed /\ b2[q].isRevealed}

\* C25: one reveal call, and one chord call, ends after at most rows * cols
\* activations of reveal that get past the guards: never more than there
\* were covered unflagged cells, and, when the game is still Playing, one
\* for each cell the call revealed; the counted run leaves the game the
\* call leaves
C25_CascadeBounded ==
  \A p \in Coords :
    /\ \A M \in Placements(Game, p[1], p[2]) :
         LET rc == revealCount(Game, p[1], p[2], M)
         IN  /\ rc.g = reveal(Game, p[1], p[2], M).g
             /\ rc.n <= Cardinality(Enterable(board))
             /\ rc.n <= config.rows * config.cols
             /\ rc.g.gameState = "playing" =>
                  rc.n = Cardinality(NewlyRevealed(board, rc.g.board))
    /\ LET cc == chordCount(Game, p[1], p[2])
       IN  /\ cc.g = chord(Game, p[1], p[2]).g
           /\ cc.n <= Cardinality(Enterable(board))
           /\ cc.n <= config.rows * config.cols
           /\ cc.g.gameState = "playing" =>
                cc.n = Cardinality(NewlyRevealed(board, cc.g.board))

\* a game in play, past its first reveal, where one reveal call cascades
\* over at least three cells around a flagged cell and leaves the game in
\* play
C25_Witness ==
  /\ gameState = "playing"
  /\ ~firstClick
  /\ flagCount > 0
  /\ \E p \in Cells :
       LET rc == revealCount(Game, p[1], p[2], {})
       IN  rc.n >= 3 /\ rc.g.gameState = "playing"

\* the cells outside the 3x3 block around the click of the placeMines call
Eligible ==
  {q \in Cells : ~Excluded(q, placing.excludeRow, placing.excludeCol)}

\* C26: in a placeMines call the cells outside the 3x3 block around the
\* click are at least as many as the clamped mine target, whatever the
\* board, the requested count and the click; so under a fair random source
\* the loop ends, with the target number of mines (none for a target below
\* zero) on one of the layouts the one-step model of the placement offers
C26_PlacementTerminates ==
  /\ [](Cardinality(Eligible) >= maxMines)
  /\ <>(~placing.active)
  /\ [](~placing.active =>
          /\ Cardinality(MineCells(board)) = IF maxMines < 0 THEN 0 ELSE maxMines
          /\ MineCells(board) \in
               MinePlacements(placing.excludeRow, placing.excludeCol))

\* a placement that ended with every cell outside the block around an
\* interior click a mine: the target met the number of eligible cells
C26_Witness ==
  /\ ~placing.active
  /\ Cardinality(Neighbours(<<placing.excludeRow, placing.excludeCol>>)) = 8
  /\ MineCells(board) # {}
  /\ MineCells(board) = Eligible

\* C27: the board the constructor builds has rows * cols cells, none of them
\* a mine, revealed, flagged or question-marked, each with adjacentMines 0;
\* and a game whose board is that board, in the initial state above all, is
\* Playing with flagCount 0 and its mines not yet placed
C27_Constructed ==
  /\ Cardinality(DOMAIN initBoard) = config.rows * config.cols
  /\ \A p \in DOMAIN initBoard :
       /\ ~initBoard[p].isMine
       /\ ~initBoard[p].isRevealed
       /\ ~initBoard[p].isFlagged
       /\ ~isQuestionMark(initBoard[p])
       /\ initBoard[p].adjacentMines = 0
  /\ board = initBoard =>
       /\ gameState = "playing"
       /\ flagCount = 0
       /\ firstClick

\* the game as constructed, on a board that is not square and was asked
\* for mines
C27_Witness ==
  /\ board = initBoard
  /\ config.rows # config.cols
  /\ config.mines > 0

\* the times of a level's stored list, in list order
StoredTimes(level) ==
  LET list == loadHighScores(stored)[level]
  IN  [k \in 1..Len(list) |-> list[k].time]

\* how often the stored list of a level holds the time t
StoredCount(level, t) ==
  Cardinality({k \in 1..Len(StoredTimes(level)) : StoredTimes(level)[k] = t})

\* how often t is among the MAX_SCORES smallest times submitted for a level
SmallestCount(level, t) ==
  LET below == CountUpTo(submitted[level], t - 1)
      room == IF below >= MAX_SCORES THEN 0 ELSE MAX_SCORES - below
  IN  Min(submitted[level][t], room)

RECURSIVE revealInOrder(_, _, _, _, _)
\* reveal with the neighbours of the cascade visited in the order ord, a
\* permutation of the indexes of Offsets
revealInOrder(g, row, col, M, ord) ==
  IF g.gameState # "playing" THEN [g |-> g, ret |-> FALSE]
  ELSE IF \/ ~InBounds(row, col)
          \/ g.board[<<row, col>>].isRevealed
          \/ g.board[<<row, col>>].isFlagged
    THEN [g |-> g, ret |-> FALSE]
  ELSE
    LET g1 == IF g.firstClick
                THEN [g EXCEPT !.firstClick = FALSE,
                               !.board = placeMines(g.board, M)]
                ELSE g
        g2 == [g1 EXCEPT !.board[<<row, col>>].isRevealed = TRUE]
        at(h, i) == revealInOrder(h, row + Offsets[ord[i]][1],
                                     col + Offsets[ord[i]][2], {}, ord).g
        n1 == at(g2, 1)
        n2 == at(n1, 2)
        n3 == at(n2, 3)
        n4 == at(n3, 4)
        n5 == at(n4, 5)
        n6 == at(n5, 6)
        n7 == at(n6, 7)
        n8 == at(n7, 8)
    IN  IF g2.board[<<row, col>>].isMine
          THEN [g |-> [g2 EXCEPT !.gameState = "lost",
                                 !.board = revealAllMines(g2.board)],
                ret |-> TRUE]
          ELSE CASE g2.board[<<row, col>>].adjacentMines # 0 -> afterCascade(g2)
                 [] n1.gameState # "playing" -> afterCascade(n1)
                 [] n2.gameState # "playing" -> afterCascade(n2)
                 [] n3.gameState # "playing" -> afterCascade(n3)
                 [] n4.gameState # "playing" -> afterCascade(n4)
                 [] n5.gameState # "playing" -> afterCascade(n5)
                 [] n6.gameState # "playing" -> afterCascade(n6)
                 [] n7.gameState # "playing" -> afterCascade(n7)
                 [] OTHER -> afterCascade(n8)

\* visiting orders other than that of the code: its reverse and a mixed one
CascadeOrders == {<<8, 7, 6, 5, 4, 3, 2, 1>>, <<5, 4, 7, 2, 8, 1, 6, 3>>}

RECURSIVE FloodFill(_, _)
\* the least set of cells that contains S and, for each of its cells with
\* adjacentMines = 0, the neighbours that are covered and not flagged in b
FloodFill(b, S) ==
  LET T == S \cup {q \in DOMAIN b :
                     /\ ~b[q].isRevealed
                     /\ ~b[q].isFlagged
                     /\ \E s \in S : b[s].adjacentMines = 0 /\ q \in Neighbours(s)}
  IN  IF T = S THEN S ELSE FloodFill(b, T)

\* the board a reveal call works on: with the mines M once firstClick is set
BoardAtReveal(M) == IF firstClick THEN placeMines(board, M) ELSE board

\* C29: an accepted reveal of a safe cell that leaves the game Playing
\* reveals exactly the flood-fill closure of its target: the least set that
\* holds the target and, for each of its cells with adjacentMines = 0, the
\* neighbours that were covered and not flagged; the set holds no mine and
\* no flagged cell, and the cascade in any other visiting order of the
\* neighbours leaves the same game
C29_FloodFill ==
  \A p \in Cells : \A M \in Placements(Game, p[1], p[2]) :
    LET r == reveal(Game, p[1], p[2], M)
        b == BoardAtReveal(M)
        S == FloodFill(b, {p})
    IN  (r.ret /\ ~r.g.board[p].isMine /\ r.g.gameState = "playing") =>
          /\ NewlyRevealed(board, r.g.board) = S
          /\ \A q \in S : ~b[q].isMine /\ ~b[q].isFlagged
          /\ \A ord \in CascadeOrders :
               revealInOrder(Game, p[1], p[2], M, ord) = r

\* a game in play, past its first reveal, where a reveal opens at least
\* three cells, passes a flagged cell next to an opened cell with no
\* adjacent mine, stops at a numbered cell and leaves the game in play
C29_Witness ==
  /\ gameState = "playing"
  /\ ~firstClick
  /\ MineCells(board) # {}
  /\ \E p \in Cells :
       LET r == reveal(Game, p[1], p[2], {})
           S == NewlyRevealed(board, r.g.board)
       IN  /\ r.ret
           /\ r.g.gameState = "playing"
           /\ Cardinality(S) >= 3
           /\ \E s \in S : r.g.board[s].adjacentMines > 0
           /\ \E s \in S : \E q \in Neighbours(s) :
                r.g.board[s].adjacentMines = 0 /\ board[q].isFlagged

\* C30: a reveal call on a game in play whose target is in bounds, covered
\* and not flagged returns true and leaves the target revealed; every other
\* reveal call returns false; and a reveal call returns true exactly when
\* it changed the board
C30_RevealReturn ==
  \A p \in Coords : \A M \in Placements(Game, p[1], p[2]) :
    LET r == reveal(Game, p[1], p[2], M)
        accepted == /\ gameState = "playing"
                    /\ p \in Cells
                    /\ ~board[p].isRevealed
                    /\ ~board[p].isFlagged
    IN  /\ accepted => r.ret /\ r.g.board[p].isRevealed
        /\ ~accepted => ~r.ret
        /\ r.ret <=> r.g.board # board

\* a game in play, past its first reveal, that holds a covered numbered
\* cell whose reveal returns true and changes that cell alone, next to a
\* flagged cell and a revealed cell whose reveals return false
C30_Witness ==
  /\ gameState = "playing"
  /\ ~firstClick
  /\ \E p \in Cells :
       LET r == reveal(Game, p[1], p[2], {})
       IN  /\ r.ret
           /\ r.g.gameState = "playing"
           /\ r.g.board = [board EXCEPT ![p].isRevealed = TRUE]
           /\ \E q \in Neighbours(p) :
                board[q].isFlagged /\ ~reveal(Game, q[1], q[2], {}).ret
           /\ \E q \in Neighbours(p) :
                board[q].isRevealed /\ ~reveal(Game, q[1], q[2], {}).ret

\* what an object of copies holds: the cell values of its grid, none while
\* it does not exist, and its three primitive fields
Holds(c, obj) ==
  IF obj.present THEN GameOf(c.heap, obj)
  ELSE [board |-> <<>>, gameState |-> obj.gameState,
        flagCount |-> obj.flagCount, firstClick |-> obj.firstClick]

\* C31: serialize leaves the game as it was; a call on the game alters
\* neither a snapshot taken earlier nor a game restored from it; deserialize
\* leaves the game and the snapshot as they were; and a call on the restored
\* game alters neither the original game nor the snapshot
C31_IndependentCopies ==
  [][/\ copies'.last = "serialize" =>
          Holds(copies', copies'.game) = Holds(copies, copies.game)
     /\ copies'.last = "call on the game" =>
          /\ Holds(copies', copies'.snap) = Holds(copies, copies.snap)
          /\ Holds(copies', copies'.restored) = Holds(copies, copies.restored)
     /\ copies'.last = "deserialize" =>
          /\ Holds(copies', copies'.game) = Holds(copies, copies.game)
          /\ Holds(copies', copies'.snap) = Holds(copies, copies.snap)
     /\ copies'.last = "call on the restored game" =>
          /\ Holds(copies', copies'.game) = Holds(copies, copies.game)
          /\ Holds(copies', copies'.snap) = Holds(copies, copies.snap)]_vars

\* a snapshot taken before the first reveal, then a first reveal on the
\* game and another on the game restored from the snapshot: the three hold
\* different boards, the two games different mines
C31_Witness ==
  /\ "snap" \in DOMAIN copies
  /\ copies.snap.present
  /\ copies.restored.present
  /\ copies.snap.firstClick
  /\ ~copies.game.firstClick
  /\ ~copies.restored.firstClick
  /\ MineCells(Holds(copies, copies.snap).board) = {}
  /\ MineCells(Holds(copies, copies.game).board)
       # MineCells(Holds(copies, copies.restored).board)

\* the games a call of reveal, toggleFlag or chord can leave
AfterAnyCall ==
  UNION {{toggleFlag(Game, p[1], p[2]).g, chord(Game, p[1], p[2]).g}
           \cup {reveal(Game, p[1], p[2], M).g : M \in Placements(Game, p[1], p[2])} :
         p \in Cells}

\* C32: after saveGame returns, whatever was saved before, a game is saved
\* only if the game handed to it is Playing, and none is saved when that
\* game is Won or Lost; and at any moment of a session of clicks, each
\* followed by autoSave, the saved game, if there is one, is Playing
C32_NeverStoresFinished ==
  /\ \A g \in AfterAnyCall :
       LET s == saveGame(gameStore, g, CurrentLevel, 0)
       IN  /\ s.present => g.gameState = "playing"
           /\ g.gameState # "playing" => ~s.present
  /\ gameStore.present =>
       /\ parseSaved(gameStore.text).gameData.gameState = "playing"
       /\ gameState = "playing"

\* a game in play is saved, as it is now, and one click ends it
C32_Witness ==
  /\ gameStore.present
  /\ parseSaved(gameStore.text).gameData = serialize(Game)
  /\ ~firstClick
  /\ \E g \in AfterAnyCall : g.gameState = "lost"
  /\ \E g \in AfterAnyCall : g.gameState = "won"

\* C33: before the first accepted reveal no toggleFlag call, whatever flags
\* were toggled before it, takes the game out of Playing or reveals a cell
C33_NoWinBeforeOpen ==
  (firstClick /\ gameState = "playing") =>
    \A p \in Coords :
      LET t == toggleFlag(Game, p[1], p[2]).g
      IN  /\ t.gameState = "playing"
          /\ \A q \in Cells : ~t.board[q].isRevealed

\* C34: after mine placement a game whose flagged cells are exactly its mine
\* cells is not Playing any more: the toggleFlag call that completed the
\* flags has won it, on every board, clamped or not
C34_FlaggingMinesWins ==
  (~firstClick /\ gameState = "playing") =>
    /\ FlaggedCells(board) # MineCells(board)
    /\ \A p \in Cells :
         LET t == toggleFlag(Game, p[1], p[2])
         IN  (t.ret /\ FlaggedCells(t.g.board) = MineCells(t.g.board)) =>
               t.g.gameState = "won"

\* C35: in every reachable state in which the game is Playing no revealed
\* cell is flagged and no mine is revealed
C35_PlayingBoard ==
  gameState = "playing" =>
    \A p \in Cells :
      /\ ~(board[p].isRevealed /\ board[p].isFlagged)
      /\ ~(board[p].isMine /\ board[p].isRevealed)

\* a game in play with a covered mine without a flag and, next to an opened
\* cell, a flag on a covered safe cell
C35_Witness ==
  /\ gameState = "playing"
  /\ ~firstClick
  /\ \E p \in Cells : board[p].isMine /\ ~board[p].isFlagged /\ ~board[p].isRevealed
  /\ \E p \in Cells :
       /\ board[p].isFlagged
       /\ ~board[p].isMine
       /\ ~board[p].isRevealed
       /\ \E q \in Neighbours(p) : board[q].isRevealed

\* the mine layout of a board: isMine and adjacentMines of every cell
Layout(b) == [p \in DOMAIN b |-> <<b[p].isMine, b[p].adjacentMines>>]

\* C36: once a reveal has succeeded and placed the mines, every later step
\* (a reveal, toggleFlag or chord call, or a save and restore of the game)
\* leaves isMine and adjacentMines of every cell as they are, and firstClick
\* is and stays cleared
C36_LayoutFrozen ==
  [][(~firstClick \/ \E p \in Cells : board[p].isRevealed) =>
       /\ ~firstClick'
       /\ Layout(board') = Layout(board)]_vars

\* a lost game on a board that takes flags only after the first reveal: the
\* mines were placed, a flag was set later and a later call opened a mine
C36_Witness ==
  /\ config.rows * config.cols > MaxEarlyCells
  /\ gameState = "lost"
  /\ flagCount > 0
  /\ Cardinality(MineCells(board)) > 1
  /\ \E p \in Cells : board[p].isFlagged /\ ~board[p].isMine

\* the cells of a board that are revealed
RevealedCells(b) == {p \in DOMAIN b : b[p].isRevealed}

\* C37: in every step of reveal, toggleFlag and chord calls on one board, a
\* cell that is revealed stays revealed, so the number of revealed cells
\* never decreases
C37_RevealedStays ==
  [][/\ RevealedCells(board) \subseteq RevealedCells(board')
     /\ Cardinality(RevealedCells(board')) >= Cardinality(RevealedCells(board))]_vars

C37_Witness ==
  /\ gameState = "lost"
  /\ \E p \in Cells : board[p].isRevealed /\ ~board[p].isMine /\ board[p].adjacentMines > 0
  /\ \E p \in Cells : ~board[p].isRevealed /\ ~board[p].isMine
  /\ \E p \in Cells : ~board[p].isRevealed /\ board[p].isFlagged

\* the cells of board b other than p are the cells of board a, and the cell
\* at p differs from a's at most in isFlagged
OnlyMarkChanged(a, b, p) ==
  /\ DOMAIN b = DOMAIN a
  /\ \A q \in DOMAIN a :
       IF q = p THEN [b[q] EXCEPT !.isFlagged = a[q].isFlagged] = a[q]
                ELSE b[q] = a[q]

\* C38: a toggleFlag call that returns true and leaves the game Playing
\* changes the target cell's isFlagged only (no isRevealed, isMine or
\* adjacentMines of any cell, no other cell's isFlagged) and changes
\* flagCount by at most 1 in absolute value
C38_ToggleFlagFrame ==
  \A p \in Coords :
    LET r == toggleFlag(Game, p[1], p[2])
    IN  (r.ret /\ r.g.gameState = "playing") =>
          /\ OnlyMarkChanged(board, r.g.board, p)
          /\ r.g.flagCount - flagCount \in {-1, 0, 1}
          /\ r.g.firstClick = firstClick

\* a running game with opened cells and a flag, where one accepted toggleFlag
\* call sets a second flag and another removes the first
C38_Witness ==
  /\ gameState = "playing"
  /\ \E p \in Cells : board[p].isRevealed
  /\ \E p, q \in Cells :
       /\ board[p].isFlagged /\ ~board[q].isFlagged
       /\ toggleFlag(Game, p[1], p[2]).ret
       /\ toggleFlag(Game, p[1], p[2]).g.gameState = "playing"
       /\ toggleFlag(Game, q[1], q[2]).ret
       /\ toggleFlag(Game, q[1], q[2]).g.gameState = "playing"

====
